---- MODULE Spec2Model ----
(***************************************************************************)
(* Session state machine of the VizGen App component: the undo/redo        *)
(* version stack, the bounded history list and its local-storage copy,     *)
(* and the asynchronous processPrompt request with the values its closure  *)
(* captured when it was started.                                           *)
(*                                                                         *)
(* Conventions: stackIndex is 0-based as in the source, so the entry at    *)
(* index i is vizStack[i + 1].  A nullable value (currentViz, toast, the   *)
(* stored item, the outstanding request) is a sequence of length 0 or 1.   *)
(* Date.now() is a logical clock that advances with every completed        *)
(* request (a request lasts at least 1000 ms); an id is the clock value    *)
(* (its decimal string is in one-to-one correspondence with it).           *)
(***************************************************************************)
EXTENDS Integers, Sequences, FiniteSets, TLC

VARIABLES mountPc, storage, prompt, status, vizStack, stackIndex, history,
          deleteId, req, clock, changes, log, svc

\* The App component's state
appVars == <<mountPc, storage, prompt, status, vizStack, stackIndex, history,
             deleteId, req, clock, changes, log>>

\* svc is one call of a function of the service module (geminiService):
\* its argument and what it returned or threw
vars == <<appVars, svc>>

(***************************************************************************)
(* Bounds                                                                  *)
(***************************************************************************)
\* The number of requests started, entries pushed by an edit or a
\* customization, and history items deleted, in one run
MaxChanges == 2

(***************************************************************************)
(* Program constants and value domains                                     *)
(***************************************************************************)
HistoryLimit == 5
FirstClock == 6

Undef == "undefined"
NoId == 0
NoTimestamp == 0

SupportedTypes == {"mermaid", "recharts", "svg"}

UndefConfig == [tag |-> "undefined", type |-> "", showGrid |-> Undef]
NullConfig == [tag |-> "null", type |-> "", showGrid |-> Undef]
BarConfig == [tag |-> "object", type |-> "bar", showGrid |-> Undef]

PromptTexts == {"", " ", "p"}
ErrorMessages == {"Network Error", ""}
EditTexts == {"null", "{bad"}

\* String.prototype.trim on the prompt texts of the model
trim(s) == IF s = " " THEN "" ELSE s

\* JSON.stringify(config, null, 2) of a chart configuration
JSONstringify(cfg) ==
    IF cfg.tag = "undefined" THEN Undef
    ELSE IF cfg.tag = "null" THEN "null"
    ELSE "{type:" \o cfg.type \o
         (IF cfg.showGrid = Undef THEN "" ELSE ",showGrid:" \o cfg.showGrid)
         \o "}"

ObjectConfigs ==
    { [tag |-> "object", type |-> t, showGrid |-> g] :
        t \in {"bar", "line"}, g \in {Undef, "true", "false"} }

\* JSON.parse of the edited text: ok = FALSE stands for the SyntaxError thrown
JSONparse_lenient(text) ==
    IF text = "null" THEN [ok |-> TRUE, value |-> NullConfig]
    ELSE IF \E c \in ObjectConfigs : JSONstringify(c) = text
    THEN [ok |-> TRUE, value |-> CHOOSE c \in ObjectConfigs : JSONstringify(c) = text]
    ELSE [ok |-> TRUE, value |-> NullConfig]

JSONparse(text) ==
    IF text = "null" THEN [ok |-> TRUE, value |-> NullConfig]
    ELSE IF \E c \in ObjectConfigs : JSONstringify(c) = text
    THEN [ok |-> TRUE, value |-> CHOOSE c \in ObjectConfigs : JSONstringify(c) = text]
    ELSE [ok |-> FALSE, value |-> UndefConfig]

\* The values generateVisualization resolves to (parsed model output)
Responses ==
    { [visualizationType |-> "mermaid", mermaidCode |-> "graph TD",
       rechartsConfig |-> UndefConfig, svgCode |-> Undef],
      [visualizationType |-> "recharts", mermaidCode |-> Undef,
       rechartsConfig |-> BarConfig, svgCode |-> Undef],
      [visualizationType |-> "svg", mermaidCode |-> Undef,
       rechartsConfig |-> UndefConfig, svgCode |-> "<svg/>"],
      [visualizationType |-> "3d", mermaidCode |-> Undef,
       rechartsConfig |-> UndefConfig, svgCode |-> Undef] }

\* VizResponse / HistoryItem: one record shape, absent fields are Undef
Viz(resp, id, originalPrompt) ==
    [id |-> id, visualizationType |-> resp.visualizationType,
     mermaidCode |-> resp.mermaidCode, rechartsConfig |-> resp.rechartsConfig,
     svgCode |-> resp.svgCode, mermaidTheme |-> Undef,
     originalPrompt |-> originalPrompt, prompt |-> Undef,
     timestamp |-> NoTimestamp]

HistoryItem_freshId(viz, id, promptText, now) ==
    [viz EXCEPT !.id = id + 1, !.prompt = promptText, !.timestamp = now]

HistoryItem(viz, id, promptText, now) ==
    [viz EXCEPT !.id = id, !.prompt = promptText, !.timestamp = now]

Min(a, b) == IF a < b THEN a ELSE b

\* Array.prototype.slice(0, n)
Take(s, n) == SubSeq(s, 1, Min(n, Len(s)))

\* Array.prototype.filter
RECURSIVE Filter(_, _)
Filter(s, d) ==
    IF s = <<>> THEN <<>>
    ELSE IF Head(s).id # d THEN <<Head(s)>> \o Filter(Tail(s), d)
    ELSE Filter(Tail(s), d)

\* const currentViz = stackIndex >= 0 && vizStack.length > stackIndex ? ... : null
currentVizOf(stack, idx) ==
    IF idx >= 0 /\ Len(stack) > idx THEN <<stack[idx + 1]>> ELSE <<>>

currentViz == currentVizOf(vizStack, stackIndex)

getCodeSnippet(viz) ==
    IF viz.visualizationType = "mermaid"
    THEN (IF viz.mermaidCode = Undef THEN "" ELSE viz.mermaidCode)
    ELSE IF viz.visualizationType = "recharts"
    THEN JSONstringify(viz.rechartsConfig)
    ELSE IF viz.visualizationType = "svg"
    THEN (IF viz.svgCode = Undef THEN "" ELSE viz.svgCode)
    ELSE ""

(***************************************************************************)
(* Local storage: the single key 'vizGenHistory'                           *)
(***************************************************************************)
\* JSON.stringify(history.slice(0, 5)) as written by the save effect
persist_short(h) == <<[json |-> Take(h, HistoryLimit - 1)]>>

persist(h) == <<[json |-> Take(h, HistoryLimit)]>>

\* JSON.parse(savedHistory)
parseSaved(saved) == saved[1].json

\* The save effect runs after every render in which `history` is a new array
saveEffect(oldStorage, changed, h) == IF changed THEN persist(h) ELSE oldStorage

\* A full list left in storage by earlier sessions (newest first)
StoredItem(id, type) ==
    HistoryItem(Viz(CHOOSE r \in Responses : r.visualizationType = type, id, "p"),
                id, "p", id)

EarlierSession ==
    <<StoredItem(5, "recharts"), StoredItem(4, "mermaid"), StoredItem(3, "svg"),
      StoredItem(2, "recharts"), StoredItem(1, "mermaid")>>

InitialStorages == { <<>>, persist(EarlierSession) }

(***************************************************************************)
(* Stack helpers                                                           *)
(***************************************************************************)
pushToStack_noIndex(stack, idx, viz) ==
    [vizStack |-> Append(SubSeq(stack, 1, idx + 1), viz),
     stackIndex |-> Len(stack)]

pushToStack(stack, idx, viz) ==
    [vizStack |-> Append(SubSeq(stack, 1, idx + 1), viz),
     stackIndex |-> Len(Append(SubSeq(stack, 1, idx + 1), viz)) - 1]


handleUndo_twice(idx) == IF idx > 0 THEN idx - 2 ELSE idx

\* handleUndo: the index it sets
handleUndo(idx) == IF idx > 0 THEN idx - 1 ELSE idx

handleRedo_offByOne(stack, idx) == IF idx < Len(stack) - 2 THEN idx + 1 ELSE idx

\* handleRedo: the index it sets
handleRedo(stack, idx) == IF idx < Len(stack) - 1 THEN idx + 1 ELSE idx

\* disabled={stackIndex <= 0} and disabled={stackIndex >= vizStack.length - 1}
undoDisabled == stackIndex <= 0
redoDisabled == stackIndex >= Len(vizStack) - 1

\* handleNewViz: the stack and index it sets
handleNewViz == [vizStack |-> <<>>, stackIndex |-> -1]

\* processPrompt, lines 698-703: the stack written by a successful request,
\* computed from the vizStack/stackIndex/currentViz its closure captured
processPromptStack_alwaysPush(r, vizWithId) ==
    pushToStack(r.vizStack, r.stackIndex, vizWithId)

processPromptStack_keepRedo(r, vizWithId) ==
    IF r.isRefinement /\ r.currentViz # <<>>
    THEN [vizStack |-> Append(r.vizStack, vizWithId),
          stackIndex |-> Len(r.vizStack)]
    ELSE [vizStack |-> <<vizWithId>>, stackIndex |-> 0]

processPromptStack(r, vizWithId) ==
    IF r.isRefinement /\ r.currentViz # <<>>
    THEN pushToStack(r.vizStack, r.stackIndex, vizWithId)
    ELSE [vizStack |-> <<vizWithId>>, stackIndex |-> 0]

insertHistory_unbounded(prev, item) == <<item>> \o prev

\* setHistory(prev => [newHistoryItem, ...prev].slice(0, 5))
insertHistory(prev, item) == Take(<<item>> \o prev, HistoryLimit)

confirmDeleteHistory_head(h, d) == IF h = <<>> THEN h ELSE Tail(h)

\* history.filter(h => h.id !== deleteId)
confirmDeleteHistory(h, d) == Filter(h, d)

\* if (currentViz?.id === deleteId) handleNewViz()
confirmDeleteStack(stack, idx, d) ==
    IF currentVizOf(stack, idx) # <<>> /\ currentVizOf(stack, idx)[1].id = d
    THEN handleNewViz
    ELSE [vizStack |-> stack, stackIndex |-> idx]

\* handleUpdateVizFromCode, lines 761-769: the entry built from the edited text
updatedViz(viz, text) ==
    IF viz.visualizationType = "mermaid" THEN [viz EXCEPT !.mermaidCode = text]
    ELSE IF viz.visualizationType = "recharts"
    THEN [viz EXCEPT !.rechartsConfig = JSONparse(text).value]
    ELSE IF viz.visualizationType = "svg" THEN [viz EXCEPT !.svgCode = text]
    ELSE viz

\* JSON.parse throws only on the recharts branch
updateThrows(viz, text) ==
    viz.visualizationType = "recharts" /\ ~JSONparse(text).ok

\* CustomizationPanel handlers: the entries handed to onUpdate
handleRechartsToggle(viz) ==
    [viz EXCEPT !.rechartsConfig.showGrid =
        IF viz.rechartsConfig.showGrid = Undef THEN "false"
        ELSE IF viz.rechartsConfig.showGrid = "true" THEN "false" ELSE "true"]

handleRechartsTypeChange(viz, type) == [viz EXCEPT !.rechartsConfig.type = type]

handleMermaidThemeChange(viz, mTheme) == [viz EXCEPT !.mermaidTheme = mTheme]

Customizations(viz) ==
    IF viz.visualizationType = "recharts" /\ viz.rechartsConfig.tag = "object"
    THEN {handleRechartsToggle(viz)}
         \cup {handleRechartsTypeChange(viz, "line")}
    ELSE IF viz.visualizationType = "mermaid" /\ viz.mermaidCode \notin {Undef, ""}
    THEN {handleMermaidThemeChange(viz, "dark")}
    ELSE {}

(***************************************************************************)
(* Record of the last operation (auxiliary): its name, the toast it showed *)
(* (showToast), whether it showed the alert dialog, the stack, index and   *)
(* history it started from, for a request step the stack, index and        *)
(* history at the time the request was issued, and for an undo (kept       *)
(* through the redo that follows it) the index and the displayed entry the *)
(* undo started from, the text of an edit and the id of a delete.          *)
(* Operations no property refers to record no state.                       *)
(***************************************************************************)
NoToast == [message |-> "", type |-> ""]

showToast(message, type) == [message |-> message, type |-> type]

Tracked ==
    {"undo", "redo", "edited", "editRejected", "customized", "deleted", "threw",
     "unsupported", "refined", "generated"}

Snapshot(stack, idx, h) == <<[vizStack |-> stack, stackIndex |-> idx, history |-> h]>>

LoggedWith(op, toast, alert, text, id) ==
    log' = [op |-> op, toast |-> toast, alert |-> alert, text |-> text, id |-> id,
            pre |-> IF op \in Tracked
                    THEN Snapshot(vizStack, stackIndex, history) ELSE <<>>,
            issued |-> IF op \in {"threw", "unsupported", "refined", "generated"}
                       THEN Snapshot(req[1].vizStack, req[1].stackIndex,
                                     req[1].history)
                       ELSE <<>>,
            undoFrom |-> IF op = "undo"
                         THEN <<[idx |-> stackIndex, viz |-> currentViz]>>
                         ELSE IF op = "redo" /\ log.op = "undo"
                         THEN log.undoFrom
                         ELSE <<>>]

Logged(op, toast, alert) == LoggedWith(op, toast, alert, "", NoId)

NoLog ==
    [op |-> "", toast |-> NoToast, alert |-> FALSE, text |-> "", id |-> NoId,
     pre |-> <<>>, issued |-> <<>>, undoFrom |-> <<>>]

lastOp == log.op

\* {currentViz && status === 'idle' && ( ... )}: the result block with the
\* undo, redo, regenerate, settings and edit-code controls
ResultShown == currentViz # <<>> /\ status = "idle"

Ready == mountPc = "ready"

\* DeleteConfirmationModal: a fixed full-screen overlay above every control
ModalOpen == deleteId # NoId

\* No call of the service module is being followed
NoCall == [pc |-> "none"]

(***************************************************************************)
(* Mount                                                                   *)
(***************************************************************************)
Init ==
    /\ mountPc = "mounting"
    /\ storage \in InitialStorages
    /\ prompt = ""
    /\ status = "idle"
    /\ vizStack = <<>>
    /\ stackIndex = -1
    /\ history = <<>>
    /\ deleteId = NoId
    /\ req = <<>>
    /\ clock = FirstClock
    /\ changes = 0
    /\ log = NoLog
    /\ svc = NoCall

\* First pass of the effects: the load effect queues setHistory(parsed), the
\* save effect of the same render still sees history = []
MountEffects ==
    /\ mountPc = "mounting"
    /\ history' = IF storage # <<>> THEN parseSaved(storage) ELSE history
    /\ storage' = saveEffect(storage, TRUE, <<>>)
    /\ mountPc' = IF storage # <<>> THEN "rerender" ELSE "ready"
    /\ Logged("mount", NoToast, FALSE)
    /\ UNCHANGED <<prompt, status, vizStack, stackIndex, deleteId, req, clock, changes>>
    /\ UNCHANGED svc

MountRerender_noSave ==
    /\ mountPc = "rerender"
    /\ mountPc' = "ready"
    /\ Logged("mounted", NoToast, FALSE)
    /\ UNCHANGED <<storage, prompt, status, vizStack, stackIndex, history, deleteId,
                   req, clock, changes>>
    /\ UNCHANGED svc

\* The render with the loaded history, followed by its save effect
MountRerender ==
    /\ mountPc = "rerender"
    /\ storage' = saveEffect(storage, TRUE, history)
    /\ mountPc' = "ready"
    /\ Logged("mounted", NoToast, FALSE)
    /\ UNCHANGED <<prompt, status, vizStack, stackIndex, history, deleteId,
                   req, clock, changes>>
    /\ UNCHANGED svc

\* window.location.reload(), or the tab closed and opened again
Reload ==
    /\ Ready
    /\ mountPc' = "mounting"
    /\ prompt' = ""
    /\ status' = "idle"
    /\ vizStack' = <<>>
    /\ stackIndex' = -1
    /\ history' = <<>>
    /\ deleteId' = NoId
    /\ req' = <<>>
    /\ log' = NoLog
    /\ UNCHANGED <<storage, clock, changes>>
    /\ UNCHANGED svc

(***************************************************************************)
(* processPrompt: one outstanding request and the closure it captured      *)
(***************************************************************************)
Closure(promptText, isRefinement) ==
    [promptText |-> promptText, isRefinement |-> isRefinement,
     currentViz |-> currentViz, vizStack |-> vizStack,
     stackIndex |-> stackIndex, prompt |-> prompt, history |-> history,
     response |-> <<>>]

\* processPrompt up to its first await
processPromptStart(promptText, isRefinement, op) ==
    /\ trim(promptText) # ""
    /\ changes < MaxChanges
    /\ changes' = changes + 1
    /\ status' = "analyzing"
    /\ req' = <<Closure(promptText, isRefinement)>>
    /\ Logged(op, NoToast, FALSE)
    /\ UNCHANGED <<mountPc, storage, prompt, vizStack, stackIndex, history,
                   deleteId, clock>>
    /\ UNCHANGED svc

handleSubmit_anytime ==
    /\ Ready /\ ~ModalOpen
    /\ processPromptStart(prompt, currentViz # <<>>, "submit")

\* The form's submit: the button is disabled={status !== 'idle' || !prompt.trim()}
handleSubmit ==
    /\ Ready /\ ~ModalOpen
    /\ status = "idle"
    /\ processPromptStart(prompt, currentViz # <<>>, "submit")

\* The Regenerate button of the result block
handleRegenerate ==
    /\ Ready /\ ~ModalOpen
    /\ ResultShown
    /\ currentViz[1].originalPrompt \notin {Undef, ""}
    /\ processPromptStart(currentViz[1].originalPrompt, FALSE, "regenerate")

\* await new Promise(r => setTimeout(r, 600)); setStatus('generating')
Analyzed ==
    /\ Ready
    /\ status = "analyzing"
    /\ status' = "generating"
    /\ Logged("analyzed", NoToast, FALSE)
    /\ UNCHANGED <<mountPc, storage, prompt, vizStack, stackIndex, history,
                   deleteId, req, clock, changes>>
    /\ UNCHANGED svc

\* generateVisualization resolves with a supported type: setStatus('rendering')
GenerateResolved(resp) ==
    /\ Ready
    /\ status = "generating"
    /\ resp.visualizationType \in SupportedTypes
    /\ status' = "rendering"
    /\ req' = <<[req[1] EXCEPT !.response = <<resp>>]>>
    /\ Logged("resolved", NoToast, FALSE)
    /\ UNCHANGED <<mountPc, storage, prompt, vizStack, stackIndex, history,
                   deleteId, clock, changes>>
    /\ UNCHANGED svc

\* generateVisualization resolves with an unrecognised type: alert, idle, return
GenerateUnsupported(resp) ==
    /\ Ready
    /\ status = "generating"
    /\ resp.visualizationType \notin SupportedTypes
    /\ status' = "idle"
    /\ req' = <<>>
    /\ Logged("unsupported", NoToast, TRUE)
    /\ UNCHANGED <<mountPc, storage, prompt, vizStack, stackIndex, history,
                   deleteId, clock, changes>>
    /\ UNCHANGED svc

GenerateThrew_reset(message) ==
    /\ Ready
    /\ status = "generating"
    /\ status' = "idle"
    /\ req' = <<>>
    /\ vizStack' = handleNewViz.vizStack
    /\ stackIndex' = handleNewViz.stackIndex
    /\ Logged("threw",
              showToast(IF message = "" THEN "Failed to generate visualization"
                        ELSE message, "error"), FALSE)
    /\ UNCHANGED <<mountPc, storage, prompt, history, deleteId, clock, changes>>
    /\ UNCHANGED svc

\* generateVisualization throws: catch shows the toast, finally sets idle
GenerateThrew_retry(message) ==
    /\ Ready
    /\ status = "generating"
    /\ status' = "analyzing"
    /\ Logged("threw",
              showToast(IF message = "" THEN "Failed to generate visualization"
                        ELSE message, "error"), FALSE)
    /\ UNCHANGED <<mountPc, storage, prompt, vizStack, stackIndex, history,
                   deleteId, req, clock, changes>>
    /\ UNCHANGED svc

GenerateThrew(message) ==
    /\ Ready
    /\ status = "generating"
    /\ status' = "idle"
    /\ req' = <<>>
    /\ Logged("threw",
              showToast(IF message = "" THEN "Failed to generate visualization"
                        ELSE message, "error"), FALSE)
    /\ UNCHANGED <<mountPc, storage, prompt, vizStack, stackIndex, history,
                   deleteId, clock, changes>>
    /\ UNCHANGED svc

\* After the 400 ms wait: lines 691-720 and the finally block
Rendered ==
    /\ Ready
    /\ status = "rendering"
    /\ LET r == req[1]
           newId == clock
           vizWithId == Viz(r.response[1], newId, r.promptText)
           next == processPromptStack(r, vizWithId)
           newHistoryItem == HistoryItem(vizWithId, newId, r.promptText, clock)
       IN /\ vizStack' = next.vizStack
          /\ stackIndex' = next.stackIndex
          /\ prompt' = IF r.prompt = r.promptText THEN "" ELSE prompt
          /\ history' = insertHistory(history, newHistoryItem)
          /\ storage' = saveEffect(storage, TRUE, history')
          /\ Logged(IF r.isRefinement /\ r.currentViz # <<>> THEN "refined"
                    ELSE "generated",
                    showToast(IF r.isRefinement THEN "Visualization updated"
                              ELSE "Visualization generated", "success"), FALSE)
    /\ status' = "idle"
    /\ req' = <<>>
    /\ clock' = clock + 1
    /\ UNCHANGED <<mountPc, deleteId, changes>>
    /\ UNCHANGED svc

(***************************************************************************)
(* User actions                                                            *)
(***************************************************************************)
\* The prompt input and the suggestion chips, disabled={status !== 'idle'}
handleInputChange(value) ==
    /\ Ready /\ ~ModalOpen
    /\ status = "idle"
    /\ prompt' = value
    /\ Logged("input", NoToast, FALSE)
    /\ UNCHANGED <<mountPc, storage, status, vizStack, stackIndex, history,
                   deleteId, req, clock, changes>>
    /\ UNCHANGED svc

\* The Undo button and its handler
UndoClick ==
    /\ Ready /\ ~ModalOpen
    /\ ResultShown
    /\ stackIndex' = IF undoDisabled THEN stackIndex ELSE handleUndo(stackIndex)
    /\ Logged("undo",
              IF ~undoDisabled /\ stackIndex > 0
              THEN showToast("Undone", "success") ELSE NoToast, FALSE)
    /\ UNCHANGED <<mountPc, storage, prompt, status, vizStack, history,
                   deleteId, req, clock, changes>>
    /\ UNCHANGED svc

\* The Redo button and its handler
RedoClick ==
    /\ Ready /\ ~ModalOpen
    /\ ResultShown
    /\ stackIndex' = IF redoDisabled THEN stackIndex
                     ELSE handleRedo(vizStack, stackIndex)
    /\ Logged("redo",
              IF ~redoDisabled /\ stackIndex < Len(vizStack) - 1
              THEN showToast("Redone", "success") ELSE NoToast, FALSE)
    /\ UNCHANGED <<mountPc, storage, prompt, status, vizStack, history,
                   deleteId, req, clock, changes>>
    /\ UNCHANGED svc

\* The New button, rendered whenever currentViz is set
NewClick ==
    /\ Ready /\ ~ModalOpen
    /\ currentViz # <<>>
    /\ vizStack' = handleNewViz.vizStack
    /\ stackIndex' = handleNewViz.stackIndex
    /\ prompt' = ""
    /\ Logged("new", NoToast, FALSE)
    /\ UNCHANGED <<mountPc, storage, status, history, deleteId, req, clock, changes>>
    /\ UNCHANGED svc

\* The user edits the source text and presses Update Preview
handleUpdateVizFromCode(text) ==
    /\ Ready /\ ~ModalOpen
    /\ ResultShown
    /\ changes < MaxChanges
    /\ IF updateThrows(currentViz[1], text)
       THEN /\ LoggedWith("editRejected", showToast("Invalid syntax", "error"),
                           FALSE, text, NoId)
            /\ UNCHANGED <<vizStack, stackIndex, changes>>
       ELSE LET next == pushToStack(vizStack, stackIndex,
                                    updatedViz(currentViz[1], text))
            IN /\ vizStack' = next.vizStack
               /\ stackIndex' = next.stackIndex
               /\ changes' = changes + 1
               /\ LoggedWith("edited",
                             showToast("Visualization updated from code", "success"),
                             FALSE, text, NoId)
    /\ UNCHANGED <<mountPc, storage, prompt, status, history, deleteId, req, clock>>
    /\ UNCHANGED svc

\* A control of the customization panel: onUpdate = handleCustomizationUpdate
handleCustomizationUpdate_inPlace(viz) ==
    /\ Ready /\ ~ModalOpen
    /\ ResultShown
    /\ changes < MaxChanges
    /\ changes' = changes + 1
    /\ vizStack' = [vizStack EXCEPT ![stackIndex + 1] = viz]
    /\ Logged("customized", NoToast, FALSE)
    /\ UNCHANGED <<mountPc, storage, prompt, status, stackIndex, history,
                   deleteId, req, clock>>
    /\ UNCHANGED svc

handleCustomizationUpdate(viz) ==
    /\ Ready /\ ~ModalOpen
    /\ ResultShown
    /\ changes < MaxChanges
    /\ changes' = changes + 1
    /\ LET next == pushToStack(vizStack, stackIndex, viz)
       IN /\ vizStack' = next.vizStack
          /\ stackIndex' = next.stackIndex
    /\ Logged("customized", NoToast, FALSE)
    /\ UNCHANGED <<mountPc, storage, prompt, status, history, deleteId, req, clock>>
    /\ UNCHANGED svc

\* A click on an item of the sidebar
loadFromHistory_bump(item) ==
    /\ Ready /\ ~ModalOpen
    /\ prompt' = ""
    /\ vizStack' = <<item>>
    /\ stackIndex' = 0
    /\ history' = <<item>> \o Filter(history, item.id)
    /\ Logged("loaded", showToast("Loaded from history", "success"), FALSE)
    /\ UNCHANGED <<mountPc, storage, status, deleteId, req, clock, changes>>
    /\ UNCHANGED svc

loadFromHistory(item) ==
    /\ Ready /\ ~ModalOpen
    /\ prompt' = ""
    /\ vizStack' = <<item>>
    /\ stackIndex' = 0
    /\ Logged("loaded", showToast("Loaded from history", "success"), FALSE)
    /\ UNCHANGED <<mountPc, storage, status, history, deleteId, req, clock, changes>>
    /\ UNCHANGED svc

\* The trash button of a sidebar item
promptDelete(id) ==
    /\ Ready /\ ~ModalOpen
    /\ changes < MaxChanges
    /\ deleteId' = id
    /\ Logged("promptDelete", NoToast, FALSE)
    /\ UNCHANGED <<mountPc, storage, prompt, status, vizStack, stackIndex,
                   history, req, clock, changes>>
    /\ UNCHANGED svc

\* The modal's Cancel button
cancelDelete ==
    /\ Ready
    /\ ModalOpen
    /\ deleteId' = NoId
    /\ Logged("cancelDelete", NoToast, FALSE)
    /\ UNCHANGED <<mountPc, storage, prompt, status, vizStack, stackIndex,
                   history, req, clock, changes>>
    /\ UNCHANGED svc

\* The modal's Delete button
confirmDelete ==
    /\ Ready
    /\ ModalOpen
    /\ history' = confirmDeleteHistory(history, deleteId)
    /\ storage' = saveEffect(storage, TRUE, history')
    /\ LET next == confirmDeleteStack(vizStack, stackIndex, deleteId)
       IN /\ vizStack' = next.vizStack
          /\ stackIndex' = next.stackIndex
          /\ prompt' = IF next.vizStack = vizStack /\ next.stackIndex = stackIndex
                       THEN prompt ELSE ""
    /\ deleteId' = NoId
    /\ changes' = changes + 1
    /\ LoggedWith("deleted", showToast("Visualization deleted", "success"),
                  FALSE, "", deleteId)
    /\ UNCHANGED <<mountPc, status, req, clock>>
    /\ UNCHANGED svc

\* The sidebar items the user clicks: the newest and the oldest one
Clicked(h) == IF h = <<>> THEN {} ELSE {1, Len(h)}

Next ==
    \/ MountEffects
    \/ MountRerender
    \/ Reload
    \/ handleSubmit
    \/ handleRegenerate
    \/ Analyzed
    \/ \E resp \in Responses : GenerateResolved(resp)
    \/ \E resp \in Responses : GenerateUnsupported(resp)
    \/ \E message \in ErrorMessages : GenerateThrew(message)
    \/ Rendered
    \/ \E value \in PromptTexts : handleInputChange(value)
    \/ UndoClick
    \/ RedoClick
    \/ NewClick
    \/ \E text \in EditTexts \cup {getCodeSnippet(vizStack[i]) : i \in 1..Len(vizStack)} :
          /\ currentViz # <<>>
          /\ text \in EditTexts \cup {getCodeSnippet(currentViz[1])}
          /\ handleUpdateVizFromCode(text)
    \/ \E viz \in UNION {Customizations(vizStack[i]) : i \in 1..Len(vizStack)} :
          /\ currentViz # <<>>
          /\ viz \in Customizations(currentViz[1])
          /\ handleCustomizationUpdate(viz)
    \/ \E i \in Clicked(history) : loadFromHistory(history[i])
    \/ \E i \in Clicked(history) : promptDelete(history[i].id)
    \/ cancelDelete
    \/ confirmDelete

Spec == Init /\ [][Next]_vars

\* The await of generateVisualization settles: it resolves or it throws
Settled ==
    \/ \E resp \in Responses : GenerateResolved(resp)
    \/ \E resp \in Responses : GenerateUnsupported(resp)
    \/ \E message \in ErrorMessages : GenerateThrew(message)

\* The effects of the mount run, the two timers of processPrompt fire and
\* the external call settles
LiveSpec ==
    /\ Spec
    /\ WF_vars(MountEffects)
    /\ WF_vars(MountRerender)
    /\ WF_vars(Analyzed)
    /\ WF_vars(Settled)
    /\ WF_vars(Rendered)


(***************************************************************************)
(* The service module: fixMermaidCode                                      *)
(*                                                                         *)
(* A text is a sequence of tokens.  A token is a word (a maximal run of    *)
(* \w characters), one whitespace character, one punctuation character, or *)
(* one of the character groups the regular expressions of the source treat *)
(* as a unit: the code fence, the arrows -> and -->, and the               *)
(* stereotype <<enumeration>> and the indentation the source inserts.      *)
(***************************************************************************)
NBSP == "&nbsp;"
Quote == "\""
Backslash == "\\"
\* The three backquotes of a code fence
Fence == "<fence>"
Indent == "    "

\* \s of the regular expressions and the characters String.prototype.trim strips
SpaceTokens == {" ", Indent, "\n", "\r", NBSP}

\* \w+ : the word tokens
WordTokens ==
    {"enum", "class", "Foo", "A", "a", "n", "mermaid", "TD", "root", "graph",
     "subgraph", "flowchart", "classDiagram", "usecaseDiagram",
     "sequenceDiagram", "mindmap", "journey"}

\* [+\-#~] : the visibility markers
VisibilityMarkers == {"+", "-", "#", "~"}

\* String.prototype.includes on the tokens of the model
TokenIncludes(t, w) == t = w \/ (t = "subgraph" /\ w = "graph")

\* String.prototype.replace(/ab/g, r) for two adjacent tokens a, b
RECURSIVE ReplacePair(_, _, _, _)
ReplacePair(s, a, b, r) ==
    IF Len(s) < 2 THEN s
    ELSE IF s[1] = a /\ s[2] = b
    THEN r \o ReplacePair(SubSeq(s, 3, Len(s)), a, b, r)
    ELSE <<s[1]>> \o ReplacePair(Tail(s), a, b, r)

\* String.prototype.replace(/a/g, r) for one token a
RECURSIVE ReplaceToken(_, _, _)
ReplaceToken(s, a, r) ==
    IF s = <<>> THEN s
    ELSE IF s[1] = a THEN r \o ReplaceToken(Tail(s), a, r)
    ELSE <<s[1]>> \o ReplaceToken(Tail(s), a, r)

\* String.prototype.trim
RECURSIVE trimStart(_)
trimStart(s) ==
    IF s # <<>> /\ s[1] \in SpaceTokens THEN trimStart(Tail(s)) ELSE s

RECURSIVE trimEnd(_)
trimEnd(s) ==
    IF s # <<>> /\ s[Len(s)] \in SpaceTokens
    THEN trimEnd(SubSeq(s, 1, Len(s) - 1)) ELSE s

trimText(s) == trimEnd(trimStart(s))

\* String.prototype.startsWith for a word of the model
startsWith(s, w) == s # <<>> /\ s[1] = w

\* fixed.split("\n")
RECURSIVE split(_)
split(s) ==
    IF \A k \in 1..Len(s) : s[k] # "\n" THEN <<s>>
    ELSE LET k == CHOOSE k \in 1..Len(s) :
                     s[k] = "\n" /\ \A j \in 1..(k - 1) : s[j] # "\n"
         IN <<SubSeq(s, 1, k - 1)>> \o split(SubSeq(s, k + 1, Len(s)))

\* lines.join("\n")
RECURSIVE join(_)
join(ls) ==
    IF Len(ls) = 1 THEN ls[1] ELSE ls[1] \o <<"\n">> \o join(Tail(ls))

\* fixMermaidCode, lines 179-185: "1. Normalize environment"
normalizeEnvironment(code) ==
    trimText(
        ReplaceToken(
            ReplacePair(
                ReplaceToken(
                    ReplacePair(
                        ReplacePair(code, Backslash, "n", <<"\n">>),
                        "\r", "\n", <<"\n">>),
                    NBSP, <<" ">>),
                Fence, "mermaid", <<>>),
            Fence, <<>>))

\* The index of the first token at or after i that is not whitespace (\s*)
RECURSIVE skipSpaces(_, _)
skipSpaces(s, i) ==
    IF i <= Len(s) /\ s[i] \in SpaceTokens THEN skipSpaces(s, i + 1) ELSE i

\* The index of the first token at or after i that is not a word (\w+)
RECURSIVE skipWords(_, _)
skipWords(s, i) ==
    IF i <= Len(s) /\ s[i] \in WordTokens THEN skipWords(s, i + 1) ELSE i

RECURSIVE enumToClass(_)
enumToClass_first(s) ==
    IF s = <<>> THEN s
    ELSE LET j == skipSpaces(s, 2)
             k == skipWords(s, j)
             m == skipSpaces(s, k)
         IN IF /\ s[1] = "enum"
               /\ j > 2
               /\ k > j
               /\ m <= Len(s)
               /\ s[m] = "{"
            THEN <<"class", " ">> \o SubSeq(s, j, k - 1)
                 \o <<" ", "{", "\n", Indent, "<<enumeration>>">>
                 \o SubSeq(s, m + 1, Len(s))
            ELSE <<s[1]>> \o enumToClass(Tail(s))

\* .replace(/enum\s+(\w+)\s*\{/g, "class $1 {\n    <<enumeration>>")
enumToClass(s) ==
    IF s = <<>> THEN s
    ELSE LET j == skipSpaces(s, 2)
             k == skipWords(s, j)
             m == skipSpaces(s, k)
         IN IF /\ s[1] = "enum"
               /\ j > 2
               /\ k > j
               /\ m <= Len(s)
               /\ s[m] = "{"
            THEN <<"class", " ">> \o SubSeq(s, j, k - 1)
                 \o <<" ", "{", "\n", Indent, "<<enumeration>>">>
                 \o enumToClass(SubSeq(s, m + 1, Len(s)))
            ELSE <<s[1]>> \o enumToClass(Tail(s))

\* .replace(/(\w+)\s*->\s*(\w+)/g, "$1 --|> $2")
RECURSIVE arrowToInheritance(_)
arrowToInheritance(s) ==
    IF s = <<>> THEN s
    ELSE LET k == skipWords(s, 1)
             m == skipSpaces(s, k)
             j == skipSpaces(s, m + 1)
             e == skipWords(s, j)
         IN IF /\ k > 1
               /\ m <= Len(s)
               /\ s[m] = "->"
               /\ e > j
            THEN SubSeq(s, 1, k - 1) \o <<" ", "--|>", " ">> \o SubSeq(s, j, e - 1)
                 \o arrowToInheritance(SubSeq(s, e, Len(s)))
            ELSE <<s[1]>> \o arrowToInheritance(Tail(s))

\* ^(\s*) with the m flag: only whitespace between the start of the line and j
atLineStart(s, j) ==
    \A k \in 1..(j - 1) :
        (\A l \in k..(j - 1) : s[l] \notin {"\n", "\r"}) => s[k] \in SpaceTokens

RECURSIVE insertSpaceAfter(_, _, _)
insertSpaceAfter(s, marks, i) ==
    IF i > Len(s) THEN <<>>
    ELSE (IF i \in marks THEN <<s[i], " ">> ELSE <<s[i]>>)
         \o insertSpaceAfter(s, marks, i + 1)

\* .replace(/^(\s*)([+\-#~])(\w+)/gm, "$1$2 $3")
spaceVisibility(s) ==
    insertSpaceAfter(s,
        { j \in 1..(Len(s) - 1) :
            /\ s[j] \in VisibilityMarkers
            /\ s[j + 1] \in WordTokens
            /\ atLineStart(s, j) },
        1)

\* The index of the last token of the run of [^"\n] tokens that starts at 2
RECURSIVE labelRun(_, _)
labelRun(s, i) ==
    IF i + 1 <= Len(s) /\ s[i + 1] \notin {Quote, "\n"}
    THEN labelRun(s, i + 1) ELSE i

\* fixed.replace(/\(([^"\n]+)\)/g, (m, content) => ...), lines 209-212
RECURSIVE quoteUseCases(_)
quoteUseCases(s) ==
    IF s = <<>> THEN s
    ELSE LET closes == { p \in 3..labelRun(s, 1) : s[p] = ")" }
         IN IF s[1] = "(" /\ closes # {}
            THEN LET p == CHOOSE p \in closes : \A q \in closes : q <= p
                     content == SubSeq(s, 2, p - 1)
                 IN (IF startsWith(content, Quote) THEN SubSeq(s, 1, p)
                     ELSE <<"(", Quote>> \o trimText(content) \o <<Quote, ")">>)
                    \o quoteUseCases(SubSeq(s, p + 1, Len(s)))
            ELSE <<s[1]>> \o quoteUseCases(Tail(s))

RECURSIVE quoteLabels(_, _, _)
quoteLabels_keepQuotes(s, open, close) ==
    IF s = <<>> THEN s
    ELSE IF s[1] = open /\ \E p \in 2..Len(s) : s[p] = close
    THEN LET p == CHOOSE p \in 2..Len(s) :
                     s[p] = close /\ \A q \in 2..(p - 1) : s[q] # close
         IN <<open, Quote>> \o SubSeq(s, 2, p - 1) \o <<Quote, close>>
            \o quoteLabels(SubSeq(s, p + 1, Len(s)), open, close)
    ELSE <<s[1]>> \o quoteLabels(Tail(s), open, close)

\* line.replace(/\["?(.*?)"?\]/g, '["$1"]') for one pair of delimiters
quoteLabels(s, open, close) ==
    IF s = <<>> THEN s
    ELSE IF s[1] = open /\ \E p \in 2..Len(s) : s[p] = close
    THEN LET p == CHOOSE p \in 2..Len(s) :
                     s[p] = close /\ \A q \in 2..(p - 1) : s[q] # close
             a == IF s[2] = Quote THEN 3 ELSE 2
             e == IF p - 1 >= a /\ s[p - 1] = Quote THEN p - 1 ELSE p
         IN <<open, Quote>> \o SubSeq(s, a, e - 1) \o <<Quote, close>>
            \o quoteLabels(SubSeq(s, p + 1, Len(s)), open, close)
    ELSE <<s[1]>> \o quoteLabels(Tail(s), open, close)

\* The three replacements applied to a line of a flow/graph diagram
protectLabels(line) ==
    quoteLabels(quoteLabels(quoteLabels(line, "[", "]"), "(", ")"), "{", "}")

\* lines.map(line => ...), lines 219-227
fixFlowLine(line) ==
    IF \E k \in 1..Len(line) :
          TokenIncludes(line[k], "flowchart") \/ TokenIncludes(line[k], "graph")
    THEN line
    ELSE protectLabels(line)

fixMermaidCode(code) ==
    LET fixed == normalizeEnvironment(code)
        lines == split(fixed)
        header == trimText(lines[1])
    IN IF startsWith(header, "classDiagram")
       THEN spaceVisibility(arrowToInheritance(enumToClass(fixed)))
       ELSE IF startsWith(header, "usecaseDiagram")
       THEN quoteUseCases(fixed)
       ELSE IF startsWith(header, "flowchart") \/ startsWith(header, "graph")
       THEN join([k \in 1..Len(lines) |-> fixFlowLine(lines[k])])
       ELSE fixed

(***************************************************************************)
(* Calls of fixMermaidCode on bounded texts                                *)
(***************************************************************************)
\* Tokens after the header of a flow/graph text of labels
MaxTokens == 4
\* Pieces after the header of the other texts
MaxPieces == 3

SeqsUpTo(A, n) == UNION { [1..k -> A] : k \in 0..n }

RECURSIVE Flatten(_)
Flatten(pieces) ==
    IF pieces = <<>> THEN <<>> ELSE Head(pieces) \o Flatten(Tail(pieces))

FlowTokens == {"[", "]", "(", ")", "{", "}", Quote, "a", "\n"}

FlowLabelTexts ==
    { <<"graph", " ", "TD", "\n">> \o body : body \in SeqsUpTo(FlowTokens, MaxTokens) }

EnvPieces ==
    { <<Backslash>>, <<"n">>, <<Fence>>, <<"mermaid">>, <<"\n">>, <<"\r">>,
      <<NBSP>>, <<"subgraph">>, <<"[", "a", "]">> }

EnvTexts ==
    { header \o Flatten(body) :
        header \in { <<"flowchart", "\n">>, <<"sequenceDiagram", "\n">> },
        body \in SeqsUpTo(EnvPieces, MaxPieces) }

ClassPieces ==
    { <<"enum", " ", "Foo", " ", "{">>, <<"enum", " ", "Foo", "{">>, <<"enum">>,
      <<"Foo">>, <<" ">>, <<"\n">>, <<"{">>, <<"}">>, <<"->">>, <<"+">> }

ClassTexts ==
    { <<"classDiagram", "\n">> \o Flatten(body) :
        body \in SeqsUpTo(ClassPieces, MaxPieces) }

UseCasePieces ==
    { <<"(", "A", ")">>, <<"(", Quote, "A", Quote, ")">>, <<"(", " ", "A", " ", ")">>,
      <<" ">>, <<"\n">>, <<"(">>, <<")">>, <<Quote>>, <<"A">>, <<"-->">> }

UseCaseTexts ==
    { <<"usecaseDiagram", "\n">> \o Flatten(body) :
        body \in SeqsUpTo(UseCasePieces, MaxPieces) }

MermaidTexts == FlowLabelTexts \cup EnvTexts \cup ClassTexts \cup UseCaseTexts

\* The App component is not part of a run that follows calls of the service
AppAbsent ==
    /\ mountPc = "absent"
    /\ storage = <<>>
    /\ prompt = ""
    /\ status = "idle"
    /\ vizStack = <<>>
    /\ stackIndex = -1
    /\ history = <<>>
    /\ deleteId = NoId
    /\ req = <<>>
    /\ clock = FirstClock
    /\ changes = 0
    /\ log = NoLog

FixInit ==
    /\ AppAbsent
    /\ svc \in { [pc |-> "called", code |-> code, once |-> <<>>, twice |-> <<>>] :
                   code \in MermaidTexts }

\* fixMermaidCode(code) returns
fixMermaidCodeReturns ==
    /\ svc.pc = "called"
    /\ svc' = [svc EXCEPT !.pc = "returned", !.once = fixMermaidCode(svc.code)]
    /\ UNCHANGED appVars

\* The returned flow/graph text is passed to fixMermaidCode once more
fixMermaidCodeAgain ==
    /\ svc.pc = "returned"
    /\ startsWith(svc.once, "flowchart") \/ startsWith(svc.once, "graph")
    /\ svc' = [svc EXCEPT !.pc = "again", !.twice = fixMermaidCode(svc.once)]
    /\ UNCHANGED appVars

FixNext == fixMermaidCodeReturns \/ fixMermaidCodeAgain

FixSpec == FixInit /\ [][FixNext]_vars


(***************************************************************************)
(* The service module: generateVisualization                               *)
(*                                                                         *)
(* The text of the model's response is a JSON document with tokens before  *)
(* and after it; the document is given by the value it denotes, a string   *)
(* field of it by its tokens.  An error is the record of the properties    *)
(* the catch block reads; status 0 and message "" stand for an absent one. *)
(***************************************************************************)
MissingKeyMessage == "System Error: API Key is missing. Please check configuration."
SafetySettingsMessage ==
    "The content was blocked due to safety settings. Please revise your prompt."
EmptyResponseMessage == "The AI model returned an empty response. Please try again."
MindmapMessage ==
    "The requested diagram type (Mindmap) is not supported. Please request a Flowchart, Use Case, or Class diagram instead."
JourneyMessage ==
    "The requested diagram type (User Journey) is not supported. Please request a Sequence Diagram or Flowchart instead."
MalformedMessage ==
    "Failed to process the AI response. The generated visualization data was malformed."
GenericMessage == "An unexpected error occurred while communicating with the AI."
NetworkMessage ==
    "Network Error: Unable to connect to Google Gemini. Please check your internet connection."
ConfigurationMessage ==
    "Authentication Configuration Error: API Key is missing or invalid."
QuotaMessage == "Quota Exceeded: You have reached the usage limit for your API key."
SafetyBlockMessage == "Safety Block: The request was blocked by safety filters."

\* The switch over the status, lines 334-359
StatusMessage(httpStatus, message) ==
    CASE httpStatus = 400 ->
           "Invalid Request: The AI could not understand the prompt. Please try rephrasing."
      [] httpStatus = 401 ->
           "Authentication Failed: Invalid API Key. Please check your .env configuration."
      [] httpStatus = 403 ->
           "Access Denied: Your API key does not have permission to access this model, or the project has restricted access."
      [] httpStatus = 404 ->
           "Model Not Found: The specified AI model version is unavailable."
      [] httpStatus = 429 ->
           "Rate Limit Exceeded: You are sending requests too quickly. Please wait a moment before trying again."
      [] httpStatus = 500 ->
           "Google Internal Error: The AI service encountered an internal error. Please try again later."
      [] httpStatus = 503 ->
           "Service Overloaded: The AI model is currently busy. Please try again in a few seconds."
      [] OTHER -> IF message # "" THEN "API Error: " \o message ELSE GenericMessage

\* String.prototype.includes on the messages of the model
MessageIncludes(message, word) ==
    <<message, word>> \in
        { <<"Failed to fetch", "fetch">>,
          <<"API key not valid", "API key">>,
          <<"quota exceeded", "quota">>,
          <<"blocked for safety", "safety">>,
          <<SafetySettingsMessage, "safety">>,
          <<MindmapMessage, "not supported">>,
          <<JourneyMessage, "not supported">> }

NoError == [name |-> "", message |-> "", status |-> 0, responseStatus |-> 0]

Error(message) == [NoError EXCEPT !.name = "Error", !.message = message]

\* The catch block of generateVisualization, lines 319-372: the message thrown
mapError_fallback(error) ==
    LET httpStatus == IF error.status # 0 THEN error.status ELSE error.responseStatus
    IN IF error.name = "TypeError" /\ MessageIncludes(error.message, "fetch")
       THEN NetworkMessage
       ELSE IF httpStatus # 0 THEN StatusMessage(httpStatus, error.message)
       ELSE GenericMessage

mapError(error) ==
    LET httpStatus == IF error.status # 0 THEN error.status ELSE error.responseStatus
    IN IF error.name = "TypeError" /\ MessageIncludes(error.message, "fetch")
       THEN NetworkMessage
       ELSE IF httpStatus # 0 THEN StatusMessage(httpStatus, error.message)
       ELSE IF error.message # ""
       THEN (IF MessageIncludes(error.message, "API key") THEN ConfigurationMessage
             ELSE IF MessageIncludes(error.message, "quota") THEN QuotaMessage
             ELSE IF MessageIncludes(error.message, "safety") THEN SafetyBlockMessage
             ELSE error.message)
       ELSE GenericMessage

\* The value a JSON document denotes
JsonValue(kind, type, code, config, svg) ==
    [kind |-> kind, visualizationType |-> type, mermaidCode |-> code,
     rechartsConfig |-> config, svgCode |-> svg]

NoValue == JsonValue("none", Undef, <<>>, UndefConfig, Undef)

\* What a call ends with: a thrown error or a returned value
Throw(error) == [threw |-> TRUE, error |-> error, value |-> NoValue]
Return(value) == [threw |-> FALSE, error |-> NoError, value |-> value]

\* .replace(/```json/g, "").replace(/```/g, "") on a run of tokens
stripFences(s) == ReplaceToken(ReplacePair(s, Fence, "json", <<>>), Fence, <<>>)

\* cleanJsonString, lines 169-175: the fences go wherever they stand, inside
\* the string fields of the document too
cleanJsonString(text) ==
    [prefix |-> trimStart(stripFences(text.prefix)),
     json |-> [text.json EXCEPT !.mermaidCode = stripFences(text.json.mermaidCode)],
     suffix |-> trimEnd(stripFences(text.suffix))]

\* JSON.parse of the cleaned text: ok = FALSE stands for the SyntaxError
JSONparseResponse_lenient(cleaned) == [ok |-> TRUE, value |-> cleaned.json]

JSONparseResponse(cleaned) ==
    IF /\ \A k \in 1..Len(cleaned.prefix) : cleaned.prefix[k] \in {" ", "\n", "\r"}
       /\ \A k \in 1..Len(cleaned.suffix) : cleaned.suffix[k] \in {" ", "\n", "\r"}
       /\ cleaned.json.kind \in {"null", "scalar", "object"}
    THEN [ok |-> TRUE, value |-> cleaned.json]
    ELSE [ok |-> FALSE, value |-> NoValue]

\* !text
textIsEmpty(text) ==
    text.prefix = <<>> /\ text.json.kind = "none" /\ text.suffix = <<>>

\* The "Strict check for unsupported types" and the post-processing,
\* lines 297-310
postProcess(vizData) ==
    IF vizData.visualizationType = "mermaid" /\ vizData.mermaidCode # <<>>
    THEN LET trimmedCode == trimText(vizData.mermaidCode)
         IN IF startsWith(trimmedCode, "mindmap") THEN Throw(Error(MindmapMessage))
            ELSE IF startsWith(trimmedCode, "journey")
                    \/ startsWith(trimmedCode, "user-journey")
            THEN Throw(Error(JourneyMessage))
            ELSE Return([vizData EXCEPT
                            !.mermaidCode = fixMermaidCode(vizData.mermaidCode)])
    ELSE Return(vizData)

\* The inner try/catch, lines 292-317
parseResponse(text) ==
    LET parsed == JSONparseResponse(cleanJsonString(text))
        inner == IF ~parsed.ok
                 THEN Throw([NoError EXCEPT !.name = "SyntaxError",
                                             !.message = "Unexpected token"])
                 ELSE IF parsed.value.kind = "null"
                 THEN Throw([NoError EXCEPT !.name = "TypeError",
                                             !.message = "Cannot read properties of null"])
                 ELSE postProcess(parsed.value)
    IN IF inner.threw /\ ~MessageIncludes(inner.error.message, "not supported")
       THEN Throw(Error(MalformedMessage))
       ELSE inner

\* The outer try block, lines 266-317
requestAndParse(outcome) ==
    IF outcome.kind = "rejected" THEN Throw(outcome.error)
    ELSE IF textIsEmpty(outcome.text)
    THEN (IF outcome.finishReason \in {"SAFETY", "BLOCKLIST"}
          THEN Throw(Error(SafetySettingsMessage))
          ELSE Throw(Error(EmptyResponseMessage)))
    ELSE parseResponse(outcome.text)

\* generateVisualization for one outcome of the request to the model
generateVisualization(apiKey, outcome) ==
    IF ~apiKey THEN Throw(Error(MissingKeyMessage))
    ELSE LET attempt == requestAndParse(outcome)
         IN IF attempt.threw THEN Throw(Error(mapError(attempt.error)))
            ELSE attempt

(***************************************************************************)
(* The specification of generateVisualization: one call per behaviour, on  *)
(* every outcome of the request up to the bound                            *)
(***************************************************************************)
MaxCode == 2

CodePieces ==
    { <<Backslash, "n">>, <<"\n">>, <<" ">>, <<Fence>>, <<"mermaid">>,
      <<"mindmap">>, <<"journey">>, <<"user-journey">>, <<"root">>,
      <<"graph", " ", "TD">> }

MermaidCodes == { Flatten(pieces) : pieces \in SeqsUpTo(CodePieces, MaxCode) }

\* The JSON documents: the shapes of VizResponse the schema asks for, and the
\* syntactically valid documents that are not of that shape
ResponseValues ==
    { JsonValue("object", "mermaid", code, UndefConfig, Undef) :
        code \in MermaidCodes }
    \cup { JsonValue("object", "recharts", <<>>, BarConfig, Undef),
           JsonValue("object", "svg", <<>>, UndefConfig, "<svg/>"),
           JsonValue("object", "3d", <<>>, UndefConfig, Undef),
           JsonValue("object", "recharts", <<>>, UndefConfig, Undef),
           JsonValue("object", "svg", <<"graph", " ", "TD">>, UndefConfig, "<svg/>"),
           JsonValue("object", Undef, <<>>, UndefConfig, Undef),
           JsonValue("scalar", Undef, <<>>, UndefConfig, Undef),
           JsonValue("null", Undef, <<>>, UndefConfig, Undef) }

\* "garbage" is a document cut short or otherwise not JSON
Documents ==
    ResponseValues \cup { NoValue,
                          JsonValue("garbage", Undef, <<>>, UndefConfig, Undef) }

ResponseTexts ==
    { [prefix |-> p, json |-> d, suffix |-> s] :
        p \in { <<>>, <<Fence, "json", "\n">>, <<"Here", " ">> },
        d \in Documents,
        s \in { <<>>, <<"\n", Fence>> } }

EmptyText == [prefix |-> <<>>, json |-> NoValue, suffix |-> <<>>]

ApiErrors ==
    { [name |-> n, message |-> m, status |-> st, responseStatus |-> 0] :
        n \in {"Error", "TypeError"},
        m \in {"", "Failed to fetch", "API key not valid", "quota exceeded",
               "blocked for safety", "boom"},
        st \in {0, 400, 401, 403, 404, 429, 500, 503, 418} }
    \cup { [name |-> "Error", message |-> "boom", status |-> 0, responseStatus |-> rs] :
             rs \in {503, 418} }

Outcomes ==
    { [kind |-> "rejected", error |-> e, text |-> EmptyText, finishReason |-> ""] :
        e \in ApiErrors }
    \cup { [kind |-> "resolved", error |-> NoError, text |-> t, finishReason |-> f] :
             t \in ResponseTexts, f \in {"", "STOP", "SAFETY", "BLOCKLIST"} }

GenInit ==
    /\ AppAbsent
    /\ svc \in { [pc |-> "called", apiKey |-> k, outcome |-> o,
                  result |-> Return(NoValue)] :
                   k \in BOOLEAN, o \in Outcomes }

generateVisualizationThrows ==
    /\ svc.pc = "called"
    /\ generateVisualization(svc.apiKey, svc.outcome).threw
    /\ svc' = [svc EXCEPT !.pc = "threw",
                          !.result = generateVisualization(svc.apiKey, svc.outcome)]
    /\ UNCHANGED appVars

generateVisualizationReturns ==
    /\ svc.pc = "called"
    /\ ~generateVisualization(svc.apiKey, svc.outcome).threw
    /\ svc' = [svc EXCEPT !.pc = "returned",
                          !.result = generateVisualization(svc.apiKey, svc.outcome)]
    /\ UNCHANGED appVars

GenNext == generateVisualizationThrows \/ generateVisualizationReturns

GenSpec == GenInit /\ [][GenNext]_vars

(***************************************************************************)
(* Two sessions (tabs) of the app on one local storage                     *)
(*                                                                         *)
(* Each session runs the load and save effects of App on its own history   *)
(* state; the storage key is the only thing they share.  A session is the  *)
(* record of its place in the mount, its history, and (auxiliary) the ids  *)
(* it loaded at mount and the ids it added itself.                         *)
(***************************************************************************)
MaxWrites == 3

Sessions == {1, 2}

ClosedSession == [pc |-> "closed", history |-> <<>>, loaded |-> {}, added |-> {}]

Ids(h) == { h[k].id : k \in 1..Len(h) }

TabsInit ==
    /\ AppAbsent
    /\ svc \in { [pc |-> "sessions", storage |-> st,
                  session |-> [t \in Sessions |-> ClosedSession],
                  writer |-> 0, writes |-> 0, now |-> FirstClock] :
                   st \in InitialStorages }

\* The tab is opened: first render, history = []
sessionOpen(t) ==
    /\ svc.session[t].pc = "closed"
    /\ svc' = [svc EXCEPT !.session[t].pc = "mounting"]
    /\ UNCHANGED appVars

\* The effects of the first commit: the load effect reads the key, the save
\* effect writes the empty history of that render
sessionMountEffects(t) ==
    /\ svc.session[t].pc = "mounting"
    /\ svc' = [svc EXCEPT
                 !.session[t].history =
                     IF svc.storage # <<>> THEN parseSaved(svc.storage) ELSE @,
                 !.session[t].loaded =
                     IF svc.storage # <<>> THEN Ids(parseSaved(svc.storage)) ELSE @,
                 !.session[t].pc = IF svc.storage # <<>> THEN "rerender" ELSE "ready",
                 !.storage = saveEffect(svc.storage, TRUE, <<>>),
                 !.writer = t]
    /\ UNCHANGED appVars

\* The render with the loaded history, followed by its save effect
sessionMountRerender(t) ==
    /\ svc.session[t].pc = "rerender"
    /\ svc' = [svc EXCEPT
                 !.session[t].pc = "ready",
                 !.storage = saveEffect(svc.storage, TRUE, svc.session[t].history),
                 !.writer = t]
    /\ UNCHANGED appVars

\* A request of the session succeeded: setHistory(prev => ...), then the save
\* effect of the render that follows
sessionGenerated_reread(t) ==
    /\ svc.session[t].pc = "ready"
    /\ svc.writes < MaxWrites
    /\ LET item == StoredItem(svc.now, "mermaid")
           next == insertHistory(IF svc.storage # <<>> THEN parseSaved(svc.storage)
                                 ELSE svc.session[t].history, item)
       IN svc' = [svc EXCEPT
                    !.session[t].history = next,
                    !.session[t].added = @ \cup {item.id},
                    !.storage = saveEffect(svc.storage, TRUE, next),
                    !.writer = t,
                    !.writes = @ + 1,
                    !.now = @ + 1]
    /\ UNCHANGED appVars

sessionGenerated(t) ==
    /\ svc.session[t].pc = "ready"
    /\ svc.writes < MaxWrites
    /\ LET item == StoredItem(svc.now, "mermaid")
           next == insertHistory(svc.session[t].history, item)
       IN svc' = [svc EXCEPT
                    !.session[t].history = next,
                    !.session[t].added = @ \cup {item.id},
                    !.storage = saveEffect(svc.storage, TRUE, next),
                    !.writer = t,
                    !.writes = @ + 1,
                    !.now = @ + 1]
    /\ UNCHANGED appVars

\* confirmDelete in the session, then the save effect
sessionDeleted(t, d) ==
    /\ svc.session[t].pc = "ready"
    /\ svc.writes < MaxWrites
    /\ LET next == confirmDeleteHistory(svc.session[t].history, d)
       IN svc' = [svc EXCEPT
                    !.session[t].history = next,
                    !.storage = saveEffect(svc.storage, TRUE, next),
                    !.writer = t,
                    !.writes = @ + 1]
    /\ UNCHANGED appVars

TabsNext ==
    \E t \in Sessions :
       \/ sessionOpen(t)
       \/ sessionMountEffects(t)
       \/ sessionMountRerender(t)
       \/ sessionGenerated(t)
       \/ \E k \in Clicked(svc.session[t].history) :
             sessionDeleted(t, svc.session[t].history[k].id)

TabsSpec == TabsInit /\ [][TabsNext]_vars

(***************************************************************************)
(* ErrorBoundary                                                           *)
(*                                                                         *)
(* One boundary with one child.  The child is given by what its render     *)
(* does: it returns, or it throws an error with some message.  A change of *)
(* state or props is followed by a render of the boundary.                 *)
(***************************************************************************)
MaxResets == 2

NoMessage == "null"

ChildOk == [throws |-> FALSE, message |-> NoMessage]

Children ==
    { ChildOk } \cup { [throws |-> TRUE, message |-> m] : m \in {"", "boom"} }

\* public state: State = { hasError: false, error: null }
InitialState == [hasError |-> FALSE, error |-> NoMessage]

Unmounted ==
    [pc |-> "unmounted", state |-> InitialState, child |-> ChildOk,
     onReset |-> FALSE, shown |-> "nothing", propagated |-> FALSE,
     onResetCalls |-> 0, resets |-> 0, op |-> ""]

\* getDerivedStateFromError
getDerivedStateFromError_ignore(error) == InitialState

getDerivedStateFromError(error) == [hasError |-> TRUE, error |-> error]

BoundaryInit ==
    /\ AppAbsent
    /\ svc = Unmounted

\* The boundary is created with its props and is about to render
boundaryMount(child, onReset) ==
    /\ svc.pc = "unmounted"
    /\ svc' = [svc EXCEPT !.pc = "render", !.state = InitialState,
                          !.child = child, !.onReset = onReset,
                          !.shown = "nothing", !.op = "mount"]
    /\ UNCHANGED appVars

\* render() with hasError: the fallback
renderFallback ==
    /\ svc.pc = "render"
    /\ svc.state.hasError
    /\ svc' = [svc EXCEPT !.pc = "shown", !.shown = "fallback", !.op = "fallback"]
    /\ UNCHANGED appVars

\* render() without hasError: the children, whose render returns
renderChildren ==
    /\ svc.pc = "render"
    /\ ~svc.state.hasError
    /\ ~svc.child.throws
    /\ svc' = [svc EXCEPT !.pc = "shown", !.shown = "children", !.op = "children"]
    /\ UNCHANGED appVars

\* render() without hasError: the render of the children throws, React hands
\* the error to getDerivedStateFromError and renders the boundary again
renderThrows ==
    /\ svc.pc = "render"
    /\ ~svc.state.hasError
    /\ svc.child.throws
    /\ svc' = [svc EXCEPT !.state = getDerivedStateFromError(svc.child.message),
                          !.propagated =
                              ~getDerivedStateFromError(svc.child.message).hasError,
                          !.pc = IF getDerivedStateFromError(svc.child.message).hasError
                                 THEN "render" ELSE "unmounted",
                          !.shown = "nothing",
                          !.op = "caught"]
    /\ UNCHANGED appVars

\* The parent renders the boundary with other children
childrenChange(child) ==
    /\ svc.pc = "shown"
    /\ child # svc.child
    /\ svc' = [svc EXCEPT !.child = child, !.pc = "render", !.op = "props"]
    /\ UNCHANGED appVars

\* handleReset: the Reset View button of the fallback
handleReset ==
    /\ svc.pc = "shown"
    /\ svc.shown = "fallback"
    /\ svc.resets < MaxResets
    /\ svc' = [svc EXCEPT !.state = [hasError |-> FALSE, error |-> NoMessage],
                          !.onResetCalls = IF svc.onReset THEN @ + 1 ELSE @,
                          !.resets = @ + 1,
                          !.pc = "render",
                          !.op = "reset"]
    /\ UNCHANGED appVars

\* The parent stops rendering the boundary
boundaryUnmount ==
    /\ svc.pc = "shown"
    /\ svc' = [Unmounted EXCEPT !.onResetCalls = svc.onResetCalls,
                                !.resets = svc.resets, !.op = "unmount"]
    /\ UNCHANGED appVars

BoundaryNext ==
    \/ \E child \in Children, onReset \in BOOLEAN : boundaryMount(child, onReset)
    \/ renderFallback
    \/ renderChildren
    \/ renderThrows
    \/ \E child \in Children : childrenChange(child)
    \/ handleReset
    \/ boundaryUnmount

BoundarySpec == BoundaryInit /\ [][BoundaryNext]_vars

(***************************************************************************)
(* CustomizationPanel and RechartsRenderer: display options and palettes   *)
(*                                                                         *)
(* A chart configuration is here the record of its three display options   *)
(* ("true", "false" or Undef) and the colours of its series (Undef for a   *)
(* series without colour).  The panel works on the displayed entry and     *)
(* hands the changed copy to onUpdate, which pushes it.                    *)
(***************************************************************************)
MaxSeries == 2
MaxClicks == 2

DisplayKeys == {"showGrid", "showLegend", "showTooltip"}

\* PALETTES of the panel
DefaultPalette == <<>>
OceanPalette == <<"#0ea5e9", "#22d3ee", "#06b6d4", "#0891b2", "#0e7490">>
SunsetPalette == <<"#f43f5e", "#fb7185", "#fda4af", "#e11d48", "#be123c">>

PanelPalettes == {DefaultPalette, OceanPalette, SunsetPalette}

\* viz.rechartsConfig[key] === undefined ? false : !viz.rechartsConfig[key]
toggle_unsetHidden(value) ==
    IF value = Undef THEN "true" ELSE IF value = "true" THEN "false" ELSE "true"

toggle(value) ==
    IF value = Undef THEN "false" ELSE IF value = "true" THEN "false" ELSE "true"

\* handleRechartsToggle(key): the configuration handed to onUpdate
handleRechartsToggleKey(config, key) == [config EXCEPT ![key] = toggle(config[key])]

\* handlePaletteChange(colors): the configuration handed to onUpdate
handlePaletteChange(config, colors) ==
    [config EXCEPT !.series =
        [i \in 1..Len(config.series) |->
            IF Len(colors) > 0 THEN colors[((i - 1) % Len(colors)) + 1] ELSE Undef]]

\* The panel: const val = config[key] !== undefined ? config[key] : def, with
\* def = true; the check mark is shown when val is truthy
panelShows(config, key) ==
    (IF config[key] # Undef THEN config[key] ELSE "true") = "true"

\* The renderer: const shouldShowGrid = showGrid !== false, and the same for
\* the legend and the tooltip
rendererShows(config, key) == config[key] # "false"

SeriesColours == SeqsUpTo({Undef, "#ff0000"}, MaxSeries)

PanelConfigs ==
    { [showGrid |-> g, showLegend |-> l, showTooltip |-> t, series |-> c] :
        g \in {Undef, "true", "false"}, l \in {Undef, "true", "false"},
        t \in {Undef, "true", "false"}, c \in SeriesColours }

\* entries: the configurations pushed, the first the one the panel opened on;
\* clicks: the control pressed for each push
PanelInit ==
    /\ AppAbsent
    /\ svc \in { [pc |-> "panel", entries |-> <<c>>, clicks |-> <<>>] :
                   c \in PanelConfigs }

displayedConfig == svc.entries[Len(svc.entries)]

toggleClick(key) ==
    /\ Len(svc.clicks) < MaxClicks
    /\ svc' = [svc EXCEPT
                 !.entries = Append(@, handleRechartsToggleKey(displayedConfig, key)),
                 !.clicks = Append(@, key)]
    /\ UNCHANGED appVars

paletteClick(colors) ==
    /\ Len(svc.clicks) < MaxClicks
    /\ svc' = [svc EXCEPT
                 !.entries = Append(@, handlePaletteChange(displayedConfig, colors)),
                 !.clicks = Append(@, IF colors = DefaultPalette THEN "Default"
                                      ELSE colors[1])]
    /\ UNCHANGED appVars

PanelNext ==
    \/ \E key \in DisplayKeys : toggleClick(key)
    \/ \E colors \in PanelPalettes : paletteClick(colors)

PanelSpec == PanelInit /\ [][PanelNext]_vars

(***************************************************************************)
(* MermaidRenderer                                                         *)
(*                                                                         *)
(* One mounted renderer: its code prop, its svgContent and error state and *)
(* the calls of mermaid.render that have not settled yet, oldest first.    *)
(* The container element, which renderDiagram needs, is rendered only when *)
(* error is null.  The component awaits each call on its own and nothing   *)
(* in it orders or cancels the calls, so they settle in any order.         *)
(***************************************************************************)
MaxRenders == 3

DiagramCodes == {"graph TD", "graph LR", "graph TD;;", " "}

\* if (!code.trim())
blank(code) == code = " "

\* mermaid.render resolves for a diagram it can parse and rejects otherwise
parses(code) == code \in {"graph TD", "graph LR"}

svgOf(code) == "<svg>" \o code \o "</svg>"

\* msg = err.message.split('\n')[0]
errorOf(code) == IF blank(code) THEN "Diagram code is empty" ELSE "Parse error"

\* renderDiagram, up to the await: the state it leaves.  last (auxiliary)
\* tells how this run ended: "skipped" without container, "threw" on blank
\* code, "awaiting" with the call of mermaid.render made
renderDiagram(r, code) ==
    IF r.error # NoMessage THEN [r EXCEPT !.last = "skipped"]
    ELSE IF blank(code)
    THEN [r EXCEPT !.error = errorOf(code), !.svgContent = "", !.last = "threw"]
    ELSE [r EXCEPT !.error = NoMessage, !.svgContent = "",
                   !.inflight = Append(@, code), !.last = "awaiting"]

RendererInit ==
    /\ AppAbsent
    /\ svc \in { renderDiagram([pc |-> "renderer", code |-> code, svgContent |-> "",
                                error |-> NoMessage, inflight |-> <<>>,
                                renders |-> 1, last |-> ""], code) :
                   code \in DiagramCodes }

\* The code prop changes: the render effect runs renderDiagram
codeChange(code) ==
    /\ svc.renders < MaxRenders
    /\ code # svc.code
    /\ svc' = renderDiagram([svc EXCEPT !.code = code, !.renders = @ + 1], code)
    /\ UNCHANGED appVars

\* The theme changes: the render effect runs renderDiagram on the same code
themeChange ==
    /\ svc.renders < MaxRenders
    /\ svc' = renderDiagram([svc EXCEPT !.renders = @ + 1], svc.code)
    /\ UNCHANGED appVars

Remove(s, k) == SubSeq(s, 1, k - 1) \o SubSeq(s, k + 1, Len(s))

\* A call of mermaid.render resolves: setSvgContent(svg)
renderResolves(k) ==
    /\ k \in 1..Len(svc.inflight)
    /\ parses(svc.inflight[k])
    /\ svc' = [svc EXCEPT !.svgContent = svgOf(svc.inflight[k]),
                          !.inflight = Remove(@, k)]
    /\ UNCHANGED appVars

\* A call of mermaid.render rejects: setError(msg)
renderRejects(k) ==
    /\ k \in 1..Len(svc.inflight)
    /\ ~parses(svc.inflight[k])
    /\ svc' = [svc EXCEPT !.error = errorOf(svc.inflight[k]),
                          !.inflight = Remove(@, k)]
    /\ UNCHANGED appVars

RendererNext ==
    \/ \E code \in DiagramCodes : codeChange(code)
    \/ themeChange
    \/ \E k \in 1..MaxRenders : renderResolves(k)
    \/ \E k \in 1..MaxRenders : renderRejects(k)

RendererSpec == RendererInit /\ [][RendererNext]_vars

(***************************************************************************)
(* Properties                                                              *)
(***************************************************************************)
pre == log.pre[1]
issued == log.issued[1]

\* The entries of a sequence
Range(seq) == {seq[k] : k \in 1..Len(seq)}

\* A message reached the user: an error toast or the alert dialog
Surfaced == log.toast.type = "error" \/ log.alert

\* C1: in every reachable state the index is -1 exactly when the stack is
\* empty, and otherwise 0 <= index <= length - 1, whatever operations were
\* taken, also while a request is outstanding.
C1_StackIndexConsistent ==
    /\ stackIndex = -1 <=> vizStack = <<>>
    /\ vizStack # <<>> => stackIndex >= 0 /\ stackIndex <= Len(vizStack) - 1

\* A reset taken while a request that captured a two-entry stack is outstanding
C1_Witness ==
    /\ status = "rendering"
    /\ lastOp = "new"
    /\ Len(req[1].vizStack) = 2
    /\ vizStack = <<>>

\* C2 as stated: for every index i with 0 <= i < N, undo followed by redo
\* leaves the index at i and the displayed entry as it was.
C2_UndoRedoRestores ==
    (lastOp = "redo" /\ log.undoFrom # <<>>) =>
        /\ stackIndex = log.undoFrom[1].idx
        /\ currentViz = log.undoFrom[1].viz

\* C2 amended: undo followed by redo leaves the index and the displayed entry
\* as they were when the undo started from an index i >= 1, or from index 0
\* of a one-entry stack.
C2_UndoRedoRestoresAboveZero ==
    (/\ lastOp = "redo"
     /\ log.undoFrom # <<>>
     /\ (log.undoFrom[1].idx > 0 \/ Len(vizStack) = 1)) =>
        /\ stackIndex = log.undoFrom[1].idx
        /\ currentViz = log.undoFrom[1].viz

\* Undo from index 1 of a stack of two, then redo
C2_Witness ==
    /\ lastOp = "redo"
    /\ log.undoFrom # <<>>
    /\ log.undoFrom[1].idx = 1
    /\ pre.stackIndex = 0
    /\ stackIndex = 1

\* C3: a successful refine issued with stack S and index i leaves the stack
\* S[0..i] followed by the new entry, the index at the new last position.
C3_RefineTruncatesAndAppends ==
    lastOp = "refined" =>
        /\ Len(vizStack) = issued.stackIndex + 2
        /\ stackIndex = Len(vizStack) - 1
        /\ \A k \in 1..(issued.stackIndex + 1) : vizStack[k] = issued.vizStack[k]
        /\ vizStack[Len(vizStack)].id = clock - 1
        /\ vizStack[Len(vizStack)] \notin Range(issued.vizStack)

\* A refine issued after an undo: the stack it was issued with had an entry
\* beyond the index
C3_Witness ==
    /\ lastOp = "refined"
    /\ Len(issued.vizStack) > issued.stackIndex + 1

\* C4: a successful generate (submit with no active entry, or regenerate)
\* leaves exactly one entry, the new one, and index 0, whatever the stack held.
C4_GenerateReplacesStack ==
    lastOp = "generated" =>
        /\ Len(vizStack) = 1
        /\ stackIndex = 0
        /\ vizStack[1].id = clock - 1
        /\ vizStack[1] \notin Range(pre.vizStack) \cup Range(issued.vizStack)

\* A regenerate issued on, and completed over, a stack of two entries
C4_Witness ==
    /\ lastOp = "generated"
    /\ Len(issued.vizStack) = 2
    /\ Len(pre.vizStack) = 2

\* C5 as stated: after a request that did not succeed, stack, index and
\* history are what they were before the request, and a message is surfaced.
C5_FailureRestoresIssueState ==
    lastOp \in {"threw", "unsupported"} =>
        /\ vizStack = issued.vizStack
        /\ stackIndex = issued.stackIndex
        /\ history = issued.history
        /\ Surfaced

\* C5 amended: handling the failure changes none of stack, index, history and
\* stored list (they are what they were right before the failure was handled),
\* and a message is surfaced.
C5_FailureKeepsState ==
    lastOp \in {"threw", "unsupported"} =>
        /\ vizStack = pre.vizStack
        /\ stackIndex = pre.stackIndex
        /\ history = pre.history
        /\ Surfaced

\* A thrown error while an entry is displayed
C5_Witness ==
    /\ lastOp = "threw"
    /\ currentViz # <<>>
    /\ log.toast.type = "error"

\* The texts JSON.parse accepts
ValidJson == {"null"} \cup {JSONstringify(c) : c \in ObjectConfigs}

\* C6: editSource on a chart entry with text that is not valid JSON leaves
\* stack and index unchanged and shows a validation error; an accepted edit
\* truncates beyond the index, appends one entry, moves the index to the end,
\* and issues no request.
C6_EditSource ==
    /\ (/\ lastOp \in {"edited", "editRejected"}
        /\ currentVizOf(pre.vizStack, pre.stackIndex)[1].visualizationType = "recharts"
        /\ log.text \notin ValidJson) =>
            /\ lastOp = "editRejected"
            /\ vizStack = pre.vizStack
            /\ stackIndex = pre.stackIndex
            /\ log.toast.type = "error"
    /\ lastOp = "edited" =>
            /\ Len(vizStack) = pre.stackIndex + 2
            /\ stackIndex = Len(vizStack) - 1
            /\ \A k \in 1..(pre.stackIndex + 1) : vizStack[k] = pre.vizStack[k]
            /\ status = "idle"
            /\ req = <<>>

\* Invalid text on a displayed chart entry
C6_Witness ==
    /\ lastOp = "editRejected"
    /\ log.text \notin ValidJson
    /\ currentViz # <<>>
    /\ currentViz[1].visualizationType = "recharts"

\* C7: undo at index 0 and redo at the last index change nothing and raise
\* no error; otherwise undo moves the index by -1 and redo by +1; the stack
\* is never changed.
C7_UndoRedoClamped ==
    /\ lastOp = "undo" =>
        /\ vizStack = pre.vizStack
        /\ stackIndex = IF pre.stackIndex <= 0 THEN pre.stackIndex
                        ELSE pre.stackIndex - 1
        /\ ~Surfaced
    /\ lastOp = "redo" =>
        /\ vizStack = pre.vizStack
        /\ stackIndex = IF pre.stackIndex >= Len(pre.vizStack) - 1
                        THEN pre.stackIndex ELSE pre.stackIndex + 1
        /\ ~Surfaced

\* Undo requested at index 0 of a stack of two
C7_Witness ==
    /\ lastOp = "undo"
    /\ pre.stackIndex = 0
    /\ Len(vizStack) = 2
    /\ stackIndex = 0

\* C8: the history never holds more than 5 entries and is newest first; a
\* successful generate or refine puts the new entry at the head, the earlier
\* entries follow in their order, and of a full list the last one is evicted.
C8_HistoryBounded ==
    /\ Len(history) <= 5
    /\ \A j, k \in 1..Len(history) :
          j < k => history[j].timestamp > history[k].timestamp
    /\ lastOp \in {"refined", "generated"} =>
          /\ history # <<>>
          /\ history[1].id = clock - 1
          /\ history[1] \notin Range(pre.history)
          /\ Len(history) = Min(Len(pre.history) + 1, 5)
          /\ \A k \in 2..Len(history) : history[k] = pre.history[k - 1]
          /\ Len(pre.history) = 5 => pre.history[5] \notin Range(history)

\* An insert into a full list
C8_Witness ==
    /\ lastOp \in {"refined", "generated"}
    /\ Len(pre.history) = 5
    /\ Len(history) = 5

\* C9: once the app is mounted, and so after every insert and delete, the
\* stored list is the first five entries of the in-memory history.
C9_StoredIsFirstFive ==
    Ready =>
        /\ storage # <<>>
        /\ storage[1].json = SubSeq(history, 1, Min(5, Len(history)))

\* A delete from a full list
C9_Witness ==
    /\ lastOp = "deleted"
    /\ Len(pre.history) = 5
    /\ Len(storage[1].json) = 4

\* C10: a confirmed delete of id d removes exactly the entries with id d and
\* keeps the others in order; the session is reset when the displayed entry
\* has id d, and otherwise stack and index are unchanged.
C10_Delete ==
    lastOp = "deleted" =>
        LET shown == currentVizOf(pre.vizStack, pre.stackIndex)
            keep(h) == h.id # log.id
        IN /\ history = SelectSeq(pre.history, keep)
           /\ (shown # <<>> /\ shown[1].id = log.id) =>
                  vizStack = <<>> /\ stackIndex = -1
           /\ ~(shown # <<>> /\ shown[1].id = log.id) =>
                  vizStack = pre.vizStack /\ stackIndex = pre.stackIndex

\* The displayed entry is deleted
C10_Witness ==
    /\ lastOp = "deleted"
    /\ pre.vizStack # <<>>
    /\ vizStack = <<>>
    /\ Len(history) = Len(pre.history) - 1

\* C11: at most one request is outstanding: a request is started (submit,
\* refine or regenerate) only in a state where status is idle and no request
\* is in flight, and while status is not idle exactly one request exists.
C11_SingleOutstanding ==
    [][/\ (req' # req /\ status' = "analyzing") =>
            (status = "idle" /\ req = <<>>)
       /\ (status' = "idle") <=> (req' = <<>>)]_vars

\* A regenerate started from the result block is in flight
C11_Witness ==
    /\ lastOp = "regenerate"
    /\ status = "analyzing"
    /\ Len(req) = 1

\* The call of fixMermaidCode has returned
Returned == svc.pc \in {"returned", "again"}

\* The text fixMermaidCode works on, and its header line
fixedText == normalizeEnvironment(svc.code)
headerLine == trimText(split(fixedText)[1])
IsFlow == startsWith(headerLine, "flowchart") \/ startsWith(headerLine, "graph")

\* s holds the tokens t from index i on
HoldsAt(s, i, t) == i + Len(t) - 1 <= Len(s) /\ SubSeq(s, i, i + Len(t) - 1) = t

\* The number of places in s where the tokens t stand
Occurrences(s, t) == Cardinality({ i \in 1..Len(s) : HoldsAt(s, i, t) })

\* Every label (X) wrapped on its own: from ( to the nearest )
RECURSIVE quoteEachLabel(_)
quoteEachLabel(s) ==
    IF s = <<>> THEN s
    ELSE IF s[1] = "(" /\ \E p \in 3..Len(s) : s[p] = ")"
    THEN LET p == CHOOSE p \in 2..Len(s) :
                     s[p] = ")" /\ \A q \in 2..(p - 1) : s[q] # ")"
         IN IF p >= 3 /\ \A q \in 2..(p - 1) : s[q] \notin {Quote, "\n"}
            THEN <<"(", Quote>> \o trimText(SubSeq(s, 2, p - 1)) \o <<Quote, ")">>
                 \o quoteEachLabel(SubSeq(s, p + 1, Len(s)))
            ELSE <<s[1]>> \o quoteEachLabel(Tail(s))
    ELSE <<s[1]>> \o quoteEachLabel(Tail(s))

\* The parentheses of s pair up without nesting: ( ) ( ) ...
IsParenthesis(t) == t \in {"(", ")"}
PairedParentheses(s) ==
    LET parens == SelectSeq(s, IsParenthesis)
    IN /\ Len(parens) % 2 = 0
       /\ \A k \in 1..Len(parens) :
             parens[k] = IF k % 2 = 1 THEN "(" ELSE ")"

\* C14 as stated: in a use-case text every label (X) that is not already
\* quoted becomes ("X") on its own, also when several labels stand on one
\* line, and quoted labels are left as they are.
C14_EachLabelQuoted ==
    (/\ Returned
     /\ startsWith(headerLine, "usecaseDiagram")
     /\ PairedParentheses(fixedText)) =>
        svc.once = quoteEachLabel(fixedText)

\* s declares an enumeration at i: enum, whitespace, a name, an opening brace
EnumDeclAt(s, i) ==
    /\ s[i] = "enum"
    /\ skipSpaces(s, i + 1) > i + 1
    /\ skipWords(s, skipSpaces(s, i + 1)) > skipSpaces(s, i + 1)
    /\ skipSpaces(s, skipWords(s, skipSpaces(s, i + 1))) <= Len(s)
    /\ s[skipSpaces(s, skipWords(s, skipSpaces(s, i + 1)))] = "{"

\* The text declares the enumeration Foo
DeclaresFoo(s) ==
    \E i \in 1..Len(s) :
        EnumDeclAt(s, i) /\ SubSeq(s, skipSpaces(s, i + 1),
                                   skipWords(s, skipSpaces(s, i + 1)) - 1) = <<"Foo">>

FooClass == <<"class", " ", "Foo", " ", "{", "\n", Indent, "<<enumeration>>">>

\* C15 as stated: for a class-diagram text containing enum Foo {, the output
\* holds a class declaration of Foo with the enumeration stereotype and no
\* enum keyword anywhere.
C15_NoEnumKeyword ==
    (Returned /\ startsWith(headerLine, "classDiagram") /\ DeclaresFoo(fixedText)) =>
        /\ Occurrences(svc.once, FooClass) >= 1
        /\ \A i \in 1..Len(svc.once) : svc.once[i] # "enum"

\* C15 amended: the output holds the class declaration of Foo with the
\* stereotype, and no enum keyword that is followed by a name and an opening
\* brace; every other token of the text stays, an enum that declares nothing
\* included.
C15_EnumDeclarationsRewritten ==
    (Returned /\ startsWith(headerLine, "classDiagram") /\ DeclaresFoo(fixedText)) =>
        /\ Occurrences(svc.once, FooClass) >= 1
        /\ \A i \in 1..Len(svc.once) : ~EnumDeclAt(svc.once, i)
        /\ Occurrences(svc.once, <<"enum">>) =
              Occurrences(fixedText, <<"enum">>)
              - Cardinality({ i \in 1..Len(fixedText) : EnumDeclAt(fixedText, i) })

\* Two declarations of Foo in one text, both rewritten
C15_Witness ==
    /\ svc.pc = "returned"
    /\ startsWith(headerLine, "classDiagram")
    /\ Cardinality({ i \in 1..Len(fixedText) : EnumDeclAt(fixedText, i) }) = 2
    /\ Occurrences(svc.once, FooClass) = 2

\* C16 as stated: for every flow/graph text x,
\* fixMermaidCode(fixMermaidCode(x)) = fixMermaidCode(x).
C16_Idempotent ==
    svc.pc = "again" => svc.twice = svc.once

\* C16 amended: the same for every flow/graph text whose environment
\* normalization is complete after one pass (removing the code fences joins
\* no backslash to an n and no carriage return to a line feed).
C16_IdempotentOnNormalizedEnvironment ==
    (svc.pc = "again" /\ normalizeEnvironment(fixedText) = fixedText) =>
        svc.twice = svc.once

\* A bracket label that nests a parenthesis label, rewritten and stable
C16_Witness ==
    /\ svc.pc = "again"
    /\ svc.code = <<"graph", " ", "TD", "\n", "[", "(", ")", "]">>
    /\ svc.once # svc.code
    /\ svc.twice = svc.once

\* C17 as stated: in a flow/graph text every line but the header line has
\* its bracket, parenthesis and brace labels put into the quoted form; the
\* header line is the only line left as it is.
C17_EveryLineButHeader ==
    (Returned /\ IsFlow) =>
        /\ Len(split(svc.once)) = Len(split(fixedText))
        /\ split(svc.once)[1] = split(fixedText)[1]
        /\ \A k \in 2..Len(split(fixedText)) :
              split(svc.once)[k] = protectLabels(split(fixedText)[k])

(***************************************************************************)
(* generateVisualization: what a call ends with                            *)
(***************************************************************************)
Unsupported(source) ==
    \/ startsWith(source, "mindmap")
    \/ startsWith(source, "journey")
    \/ startsWith(source, "user-journey")

\* The call resolved to a model response that parses as a diagram
DiagramResponse ==
    /\ svc.apiKey
    /\ svc.outcome.kind = "resolved"
    /\ ~textIsEmpty(svc.outcome.text)
    /\ JSONparseResponse(cleanJsonString(svc.outcome.text)).ok
    /\ cleanJsonString(svc.outcome.text).json.visualizationType = "mermaid"
    /\ cleanJsonString(svc.outcome.text).json.mermaidCode # <<>>

\* The diagram source the response stands for, normalized
responseSource == fixMermaidCode(cleanJsonString(svc.outcome.text).json.mermaidCode)

\* C12 as stated: generateVisualization never returns a diagram whose source
\* begins with mindmap, journey or user-journey, and for every model response
\* whose diagram source begins so it throws the "not supported" error.
C12_UnsupportedRejected ==
    /\ svc.pc = "returned" /\ svc.result.value.visualizationType = "mermaid"
          => ~Unsupported(svc.result.value.mermaidCode)
    /\ svc.pc \in {"returned", "threw"} /\ DiagramResponse /\ Unsupported(responseSource)
          => /\ svc.result.threw
             /\ svc.result.error.message \in {MindmapMessage, JourneyMessage}

\* The response text is a JSON document of the response shape: an object of
\* one of the three visualization types with the content field of that type
\* populated and no other
ResponseShaped(value) ==
    /\ value.kind = "object"
    /\ value.visualizationType \in {"mermaid", "recharts", "svg"}
    /\ (value.mermaidCode # <<>>) <=> (value.visualizationType = "mermaid")
    /\ (value.rechartsConfig # UndefConfig) <=> (value.visualizationType = "recharts")
    /\ (value.svgCode # Undef) <=> (value.visualizationType = "svg")

\* A call that got a response from the model and has ended
Responded ==
    svc.pc \in {"returned", "threw"} /\ svc.apiKey /\ svc.outcome.kind = "resolved"

\* The response text, its code fences removed, is not a JSON document: it is
\* empty or cut short, or there is text around the document
NotJson ==
    LET around == stripFences(svc.outcome.text.prefix)
                     \o stripFences(svc.outcome.text.suffix)
    IN \/ svc.outcome.text.json.kind \in {"none", "garbage"}
       \/ \E k \in 1..Len(around) : around[k] \notin {" ", "\n", "\r"}

\* The value the document denotes once the fences are removed
responseValue == cleanJsonString(svc.outcome.text).json

DescriptiveMessages == {EmptyResponseMessage, SafetyBlockMessage, MalformedMessage}

C19_StatusOrGeneric ==
    svc.pc = "threw" /\ svc.apiKey =>
       LET failure == requestAndParse(svc.outcome).error
           httpStatus == IF failure.status # 0 THEN failure.status
                         ELSE failure.responseStatus
           network == failure.name = "TypeError"
                      /\ MessageIncludes(failure.message, "fetch")
       IN /\ httpStatus \in {400, 401, 403, 404, 429, 500, 503}
                => svc.result.error.message = StatusMessage(httpStatus, "")
          /\ ~network /\ httpStatus = 0
                => svc.result.error.message = GenericMessage

\* C19, amended: a failure with status 400, 401, 403, 404, 429, 500 or 503
\* gets the fixed message of that status, unless it is a TypeError whose
\* message mentions fetch, which gets the network message; a failure with
\* another status gets "API Error: " and its message.  A failure without
\* status keeps its own message, except that a message mentioning API key,
\* quota or safety is replaced by the fixed message for it.  The generic
\* message is for the failures that have no message.
C19_FailureMessages ==
    svc.pc = "threw" /\ svc.apiKey =>
       LET failure == requestAndParse(svc.outcome).error
           httpStatus == IF failure.status # 0 THEN failure.status
                         ELSE failure.responseStatus
           network == failure.name = "TypeError"
                      /\ MessageIncludes(failure.message, "fetch")
           thrown == svc.result.error.message
       IN /\ network => thrown = NetworkMessage
          /\ ~network /\ httpStatus \in {400, 401, 403, 404, 429, 500, 503}
                => thrown = StatusMessage(httpStatus, "") /\ thrown # GenericMessage
          /\ ~network /\ httpStatus \notin {0, 400, 401, 403, 404, 429, 500, 503}
                => thrown = IF failure.message = "" THEN GenericMessage
                            ELSE "API Error: " \o failure.message
          /\ ~network /\ httpStatus = 0 /\ failure.message = ""
                => thrown = GenericMessage
          /\ ~network /\ httpStatus = 0 /\ failure.message # ""
                => thrown =
                      IF MessageIncludes(failure.message, "API key")
                      THEN ConfigurationMessage
                      ELSE IF MessageIncludes(failure.message, "quota")
                      THEN QuotaMessage
                      ELSE IF MessageIncludes(failure.message, "safety")
                      THEN SafetyBlockMessage
                      ELSE failure.message

\* A request rejected with status 429 was reported as a rate limit, and not
\* with the message the rejection carried
C19_Witness ==
    /\ svc.pc = "threw" /\ svc.apiKey
    /\ svc.outcome.kind = "rejected"
    /\ svc.outcome.error.status = 429
    /\ svc.outcome.error.message = "boom"
    /\ svc.result.error.message = StatusMessage(429, "")

(***************************************************************************)
(* The version stack: resets and content                                   *)
(***************************************************************************)
\* C20 as stated: a reset leaves the stack empty with index -1, so does the
\* deletion of the displayed entry, and an entry discarded that way is not in
\* the stack again unless it is loaded from the history: when a request
\* completes, the stack holds the entries it held just before and the new one,
\* also when the reset came while the request was outstanding.
C20_DiscardedStaysDiscarded ==
    /\ lastOp = "new" => vizStack = <<>> /\ stackIndex = -1
    /\ lastOp = "deleted"
       /\ currentVizOf(log.pre[1].vizStack, log.pre[1].stackIndex) # <<>>
       /\ currentVizOf(log.pre[1].vizStack, log.pre[1].stackIndex)[1].id = log.id
          => vizStack = <<>> /\ stackIndex = -1
    /\ lastOp \in {"refined", "generated"}
          => \A k \in 1..Len(vizStack) :
                \/ vizStack[k].id = clock - 1
                \/ \E j \in 1..Len(log.pre[1].vizStack) :
                      log.pre[1].vizStack[j] = vizStack[k]

\* A content field is populated when it is present and, for the chart
\* configuration, an object
Populated(viz) ==
    [mermaid |-> viz.mermaidCode # Undef,
     recharts |-> viz.rechartsConfig.tag = "object",
     svg |-> viz.svgCode # Undef]

\* C13 as stated: every entry of the version stack has exactly one content
\* field populated, the one its visualizationType selects, whether the entry
\* comes from a model response, an edit of the source or a customization.
C13_OneContentField ==
    \A k \in 1..Len(vizStack) :
       \A type \in {"mermaid", "recharts", "svg"} :
          Populated(vizStack[k])[type] <=> (vizStack[k].visualizationType = type)

\* C21: an edit of the source and a customization append a new entry and
\* change no entry in place: the stack is the entries up to the index
\* displayed before, each identical to what it was, followed by the one new
\* entry, which is the entry displayed now.
C21_NewEntryNotInPlace ==
    lastOp \in {"edited", "customized"} =>
       LET before == log.pre[1]
       IN /\ Len(vizStack) = before.stackIndex + 2
          /\ stackIndex = before.stackIndex + 1
          /\ \A k \in 1..(before.stackIndex + 1) :
                vizStack[k] = before.vizStack[k]

\* A customization changed the displayed entry, and the entry it started
\* from is still below it
C21_Witness ==
    /\ lastOp = "customized"
    /\ stackIndex >= 1
    /\ vizStack[stackIndex + 1] # vizStack[stackIndex]
    /\ vizStack[stackIndex] = log.pre[1].vizStack[log.pre[1].stackIndex + 1]

(***************************************************************************)
(* Two sessions on one storage                                             *)
(***************************************************************************)
\* C22: with two sessions on one storage key, the stored list is the list of
\* the session that wrote last (its first five entries), whatever the other
\* session holds: the stored entries are among those the last writer loaded
\* at its mount or added itself, so an entry only the other session added
\* is not stored.
C22_LastWriterWins ==
    svc.writer \in Sessions /\ svc.session[svc.writer].pc = "ready" =>
       LET mine == svc.session[svc.writer]
       IN /\ svc.storage = persist(mine.history)
          /\ Ids(parseSaved(svc.storage)) \subseteq mine.loaded \cup mine.added

\* Both sessions have added an entry after both were mounted, session 2
\* wrote last, and the entry session 1 added is not stored
C22_Witness ==
    /\ svc.writer = 2
    /\ \A t \in Sessions : svc.session[t].pc = "ready" /\ svc.session[t].added # {}
    /\ svc.session[1].added \cap svc.session[2].loaded = {}
    /\ svc.session[1].added \cap Ids(parseSaved(svc.storage)) = {}
    /\ svc.session[1].added \subseteq Ids(svc.session[1].history)

(***************************************************************************)
(* The status of a request                                                 *)
(***************************************************************************)
\* The moves of status inside one page: idle, analyzing, generating, then
\* rendering on success, then idle
StatusMoves ==
    { <<"idle", "analyzing">>, <<"analyzing", "generating">>,
      <<"generating", "rendering">>, <<"generating", "idle">>,
      <<"rendering", "idle">> }

\* C23: status only moves idle -> analyzing -> generating -> (rendering) ->
\* idle, every way out of generating (success, thrown error, unrecognised
\* type) ends in idle, and a request whose timers fire and whose external
\* call settles brings status back to idle, where the submit control is
\* enabled again.
C23_StatusReturnsToIdle ==
    /\ [][status' # status /\ mountPc' = "ready" => <<status, status'>> \in StatusMoves]_vars
    /\ [](log.op \in {"threw", "unsupported", "refined", "generated"} => status = "idle")
    /\ (status # "idle") ~> (status = "idle")

\* A request went through all three stages and back to idle
C23_Witness ==
    /\ lastOp \in {"refined", "generated"}
    /\ status = "idle"
    /\ req = <<>>
    /\ log.issued # <<>>

(***************************************************************************)
(* The history list                                                        *)
(***************************************************************************)
\* C24: a mount does not lose the stored history.  When the key holds a list
\* of at most five entries, the load effect makes that list the history, the
\* save effect of the render that follows stores it again, nothing else
\* happens in between, and the mount comes to that end.
C24_MountKeepsHistory ==
    /\ [][mountPc = "mounting" /\ storage # <<>>
          /\ Len(parseSaved(storage)) <= HistoryLimit
            => /\ mountPc' = "rerender"
               /\ history' = parseSaved(storage)
               /\ persist(history') = storage]_vars
    /\ [][mountPc = "rerender"
            => /\ mountPc' = "ready"
               /\ history' = history
               /\ storage' = persist(history)
               /\ parseSaved(storage') = history]_vars
    /\ (mountPc = "mounting") ~> (mountPc = "ready")

\* A mount has ended with the five stored entries in memory and in storage
C24_Witness ==
    /\ lastOp = "mounted"
    /\ mountPc = "ready"
    /\ Len(history) = HistoryLimit
    /\ parseSaved(storage) = history

\* C25: a successful generate or refine puts exactly one new entry into the
\* history, at its head, in front of the entries the history held (cut to the
\* limit), and the id of that entry is the id of the entry at the current
\* stack index.
C25_OneHistoryEntryPerRequest ==
    lastOp \in {"refined", "generated"} =>
       /\ history # <<>>
       /\ Tail(history) = Take(log.pre[1].history, HistoryLimit - 1)
       /\ history[1].id \notin Ids(log.pre[1].history)
       /\ currentViz # <<>>
       /\ history[1].id = currentViz[1].id

\* A refine has completed on a full history: the new entry is at the head and
\* the oldest entry has left the list
C25_Witness ==
    /\ lastOp = "refined"
    /\ Len(log.pre[1].history) = HistoryLimit
    /\ history[1].id = vizStack[stackIndex + 1].id
    /\ history[HistoryLimit] = log.pre[1].history[HistoryLimit - 1]

\* C26: an edit of the source, a customization, undo, redo, reset and a load
\* from the history leave the history list as it was, in content and order;
\* inside a mounted page only a completed generate or refine and a
\* confirmed delete change it.
C26_HistoryFrame ==
    [][/\ log'.op \in {"edited", "editRejected", "customized", "undo", "redo",
                       "new", "loaded"}
          => history' = history
       /\ mountPc = "ready" /\ mountPc' = "ready" /\ history' # history
          => log'.op \in {"refined", "generated", "deleted"}]_vars

\* The entry loaded from the history was customized and the history is the
\* one the session had before
C26_Witness ==
    /\ lastOp = "customized"
    /\ history # <<>>
    /\ history = log.pre[1].history
    /\ vizStack[stackIndex + 1] \notin { history[k] : k \in 1..Len(history) }

(***************************************************************************)
(* ErrorBoundary                                                           *)
(***************************************************************************)
\* C29: an error thrown by the render of the children is contained: the
\* boundary goes into its error state with that error and shows the
\* fallback, and nothing propagates; a boundary in the error state stays in it
\* whatever children it is given, and leaves it only by handleReset, which
\* clears the error and calls onReset once (when the prop is given).
C29_Contained ==
    /\ [](~svc.propagated)
    /\ [](svc.op = "caught" => svc.state = [hasError |-> TRUE, error |-> svc.child.message])
    /\ [](svc.pc = "shown" =>
             svc.shown = IF svc.state.hasError THEN "fallback" ELSE "children")
    /\ [][svc.state.hasError /\ svc'.pc # "unmounted" /\ ~svc'.state.hasError
            => /\ svc'.op = "reset"
               /\ svc'.state.error = NoMessage
               /\ svc'.onResetCalls = svc.onResetCalls + (IF svc.onReset THEN 1 ELSE 0)]_vars
    /\ [][svc'.onResetCalls # svc.onResetCalls => svc'.op = "reset"]_vars

\* The fallback was shown, Reset View was pressed, onReset was called once
\* and the children, which render now, are shown again
C29_Witness ==
    /\ svc.op = "children"
    /\ svc.resets = 1
    /\ svc.onResetCalls = 1
    /\ svc.shown = "children"

(***************************************************************************)
(* CustomizationPanel: palettes and display options                        *)
(***************************************************************************)
\* C27 as stated: the entry pushed by the Default palette has, for every
\* series, the colour the series had in the entry before.
C27_DefaultKeepsColours ==
    \A k \in 1..Len(svc.clicks) :
       svc.clicks[k] = "Default" =>
          \A i \in 1..Len(svc.entries[k].series) :
             svc.entries[k + 1].series[i] = svc.entries[k].series[i]

C28_ShowsCurrentCode ==
    svc.last = "awaiting" /\ svc.inflight = <<>> /\ parses(svc.code) =>
       /\ svc.error = NoMessage
       /\ svc.svgContent = svgOf(svc.code)

====
